---- MODULE Spec2Model ----
(***************************************************************************)
(* The deployment event pipeline of dora-metrics: event workers taking     *)
(* ArgoCD application events, the event processor's per-event handler,     *)
(* the commit processor, the DevLake formatter, the Redis keys they share  *)
(* and the DevLake fan-out.                                                *)
(*                                                                         *)
(* One action is one step of a worker between two accesses to shared       *)
(* state (a Redis GET or SET, the DevLake POST).  The local computation    *)
(* that precedes an access is part of the same action.                     *)
(***************************************************************************)
EXTENDS Bags, FiniteSets, Integers, Sequences, TLC

\* ------------------------------------------------------------------ bounds

\* Wall-clock instants 1..MaxTime; 0 is the zero time.Time.  The horizon is
\* far below the 30-day TTL of the Redis keys, so no key expires.
MaxTime == 2

\* Longest deployment history carried by an event.
MaxHist == 2

\* Fan-out calls recorded before the workers stop taking events.
MaxPosts == 2

\* The capacity of the event channel, make(chan watch.Event, 10000), scaled
\* down.
EventChCap == 2

\* Events dropped before the watches deliver no more.
MaxDropped == 2

\* ------------------------------------------------------------- the inputs

Workers == {"w1", "w2"}

AppNames == {"ui-c1"}
Namespaces == {"prod"}
KnownClusters == <<"c1">>
ComponentsToMonitor == {"ui"}

\* The sync revision of an event is r1 or empty; its history may also hold
\* the older revision r0.
Revs == {"r1"}
HistoryRevs == {"r0", "r1"}
\* The revision synced after r1.
LaterRevs == {"r2"}
SyncStatuses == {"Synced", "OutOfSync"}
HealthStatuses == {"Healthy", "Missing"}
EventTypes == {"ADDED", "MODIFIED", "DELETED"}

\* Image tags that are commit hashes; any other tag fails IsValidCommit.
ImageTags == {"t1", "t2"}
CommitHashes == Revs \cup LaterRevs \cup ImageTags

\* An image reference is its base (registry and repository) and its tag.
ImageInputs == {<< >>}

\* A repository URL as the parts normalizeRepoURL looks at: the scheme,
\* whether the text has upper-case letters, the host and path in lower
\* case, and what follows the path, a sequence of ".git" and "/".
\* NoURL is the empty string.
NoURL == [scheme |-> "", upper |-> FALSE, repo |-> "", tail |-> << >>]
Repos == {"github.com/org/app", "github.com/org/lib"}
Tails == {<< >>, <<".git">>, <<"/">>, <<".git", "/">>}
RepoURLs == [scheme : {"https", "http"}, upper : BOOLEAN, repo : Repos, tail : Tails]

\* "https://github.com/redhat-appstudio/infra-deployments.git"
InfraDeploymentsURL ==
  [scheme |-> "https", upper |-> FALSE,
   repo |-> "github.com/redhat-appstudio/infra-deployments", tail |-> <<".git">>]

\* repository_blacklist of the configuration: "https://github.com/org/lib".
RepositoryBlacklist ==
  <<[scheme |-> "https", upper |-> FALSE, repo |-> "github.com/org/lib", tail |-> << >>]>>

NoRecord == [none |-> TRUE]
NoApp == [none |-> TRUE]
NoArrival == [marked |-> FALSE, calls |-> {}]

\* A history entry: its revision, its deployedAt and its source.repoURL.
HistoryEntries(t) ==
  [revision : HistoryRevs, deployedAt : 1..t, repoURL : {InfraDeploymentsURL}]

RECURSIVE SeqsUpTo(_, _)
SeqsUpTo(S, n) ==
  IF n = 0 THEN {<< >>}
  ELSE LET shorter == SeqsUpTo(S, n - 1)
       IN  shorter \cup {Append(s, x) : s \in {q \in shorter : Len(q) = n - 1}, x \in S}

\* ArgoCD appends to the history in deployment order.
Chronological(h) ==
  \A i \in 1..(Len(h) - 1) : h[i].deployedAt <= h[i + 1].deployedAt

Histories(t) == {h \in SeqsUpTo(HistoryEntries(t), MaxHist) : Chronological(h)}

\* The application objects a watch event can carry at instant t.
Applications(t) ==
  [name : AppNames, namespace : Namespaces, sync : SyncStatuses,
   health : HealthStatuses, revision : Revs \cup {""},
   history : Histories(t), images : ImageInputs]

\* ------------------------------------------------------------ validator.go

\* The predicates of AppValidator.  The handler of event.go calls none of
\* them: its own checks are isFailedDeployment and isDeployedRevision below.

isHealthy(app) == app.health = "Healthy" \/ app.health = "Unknown"

isSynced(app) == app.sync = "Synced" \/ app.sync = "Unknown"

hasRevision(revision) == revision # ""

ShouldProcess(app, syncRevision) ==
  isHealthy(app) /\ isSynced(app) /\ hasRevision(syncRevision)

IsRevisionInHistory(app, syncRevision) ==
  /\ Len(app.history) # 0
  /\ \E i \in 1..Len(app.history) : app.history[i].revision = syncRevision

GetDeployedTimestamp(app, revision) ==
  LET hits == {i \in 1..Len(app.history) :
                 /\ app.history[i].revision = revision
                 /\ app.history[i].deployedAt # 0}
  IN  IF hits = {} THEN 0
      ELSE app.history[CHOOSE i \in hits : \A j \in hits : i <= j].deployedAt

\* ------------------------------------------------------- commitHelper

\* The source.repoURL of the first history entry of the revision that has
\* one.
getRepoURLFromHistory(app, commitSHA) ==
  LET hits == {i \in 1..Len(app.history) :
                 /\ app.history[i].revision = commitSHA
                 /\ app.history[i].repoURL # NoURL}
  IN  IF hits = {} THEN NoURL
      ELSE app.history[CHOOSE i \in hits : \A j \in hits : i <= j].repoURL

\* ------------------------------------------------------ parser/application.go

\* strings.HasSuffix(name, "-" + cluster) and strings.TrimSuffix, tabulated
\* for the application names of the model.
NameParts == [n \in AppNames |-> IF n = "ui-c1" THEN <<"ui", "c1">> ELSE <<"", "">>]

parseApplicationName(name) ==
  LET hit == {i \in 1..Len(KnownClusters) : NameParts[name][2] = KnownClusters[i]}
  IN  IF hit = {} THEN [environment |-> "", component |-> "", cluster |-> ""]
      ELSE [environment |-> "production",
            component |-> NameParts[name][1],
            cluster |-> NameParts[name][2]]

isNamespaceMonitored(namespace) == namespace \in Namespaces

isComponentMonitored(component) == component \in ComponentsToMonitor

isClusterKnown(cluster) == \E i \in 1..Len(KnownClusters) : KnownClusters[i] = cluster

ShouldMonitor(app) ==
  /\ isNamespaceMonitored(app.namespace)
  /\ isComponentMonitored(parseApplicationName(app.name).component)
  /\ isClusterKnown(parseApplicationName(app.name).cluster)

getDeploymentRevision(app) == app.revision

\* ApplicationInfo: DeployedAt is time.Now() at the moment of parsing.
ParseApplication(app, t) ==
  [name |-> app.name,
   namespace |-> app.namespace,
   revision |-> getDeploymentRevision(app),
   deployedAt |-> t,
   health |-> app.health,
   images |-> app.images,
   environment |-> parseApplicationName(app.name).environment,
   component |-> parseApplicationName(app.name).component,
   cluster |-> parseApplicationName(app.name).cluster]

\* ------------------------------------------------------------------- state

VARIABLES
  now,            \* the wall clock
  redisUp,        \* whether Redis answers; every operation fails while it is down
  processed,      \* keys prefix:processed:commitSHA:appName:cluster
  devlake,        \* keys prefix:devlake:commitSHA:component
  records,        \* keys prefix:name:cluster, the JSON DeploymentRecord or NoRecord
  posts,          \* the calls made to the DevLake fan-out, with their outcome
  pc,             \* per worker: where its handler stands
  app,            \* per worker: the application object of its event
  appInfo,        \* per worker: the ApplicationInfo parsed from it
  commitHistory,  \* per worker: the commits attributed to the deployment
  idx,            \* per worker: the formatter's position in commitHistory
  devlakeCommits, \* per worker: the payload commits built so far
  arrival,        \* per worker: what had happened to the deployment of its event
                  \* when it took the event (read by the properties only)
  eventCh,        \* ArgoCDWatcher.eventCh: the events buffered in the channel
  closed,         \* the channels of the watcher that are closed
  wg,             \* ArgoCDWatcher.wg: the counter of the WaitGroup
  ctxDone,        \* whether the context passed to Start is cancelled
  loop,           \* where the watchLoop goroutine stands
  watches,        \* per namespace: where its watchNamespace goroutine stands,
                  \* and the event it holds at its inner select
  stops,          \* per caller of Stop: where its call stands
  panics,         \* the panics raised: the goroutine and the runtime error
  dropped,        \* the events dropped with "Event channel is full"
  client,         \* ArgoCDWatcher.client: its clientset and its namespaces
  startErr,       \* what Start returned, "notCalled" before the call
  integration,    \* DevLakeIntegration: enabled, the token, projectID, teams
  call,           \* the last call of the integration and what it returned
  requests,       \* the HTTP requests of the last call, in the order sent
  incidentState,  \* Incidents.incidentState, by incident id
  feed            \* the incidents as the WebRCA API lists them

vars == <<now, redisUp, processed, devlake, records, posts,
          pc, app, appInfo, commitHistory, idx, devlakeCommits, arrival,
          eventCh, closed, wg, ctxDone, loop, watches, stops, panics, dropped,
          client, startErr, integration, call, requests, incidentState, feed>>

\* The client the watcher is built with and the result of Start.
setup == <<client, startErr>>

watcher == <<eventCh, closed, wg, ctxDone, loop, watches, stops, panics, dropped, setup>>

\* The DevLake integration and the incident monitor.
downstream == <<integration, call, requests, incidentState, feed>>

store == <<processed, devlake, records>>
locals == <<app, appInfo, commitHistory, idx, devlakeCommits, arrival>>

Components == {parseApplicationName(n).component : n \in AppNames}
Clusters == {parseApplicationName(n).cluster : n \in AppNames}

\* buildKey(name, cluster): StoreDeployment is called with the application
\* name, GetDeployment with whatever name its caller passes.
RecordKeys == (AppNames \cup Components) \X Clusters

\* What a worker keeps of the application object while it handles the
\* event: the fields the handler reads and the validator's verdicts on it.
Snapshot(a) ==
  [name |-> a.name,
   namespace |-> a.namespace,
   sync |-> a.sync,
   health |-> a.health,
   revision |-> a.revision,
   inHistory |-> IsRevisionInHistory(a, a.revision),
   deployedTimestamp |-> GetDeployedTimestamp(a, a.revision),
   repoURLs |-> [sha \in CommitHashes \cup {""} |-> getRepoURLFromHistory(a, sha)]]

\* The goroutines that call Stop.
Callers == {"s1", "s2"}

\* A watchNamespace goroutine that holds no event.
At(place) == [at |-> place, event |-> ""]

\* The global DevLake project and the projects of the teams.
GlobalProject == "1"
ProjectIDs == {"1", "2"}

\* The incidents the WebRCA API knows.
IncidentIDs == {"ITN-1"}

NoCall == [op |-> "none"]
NoIncident == [none |-> TRUE]
NoIncidentState == [exists |-> FALSE]

\* An enabled integration with its token and no team, no call made, no
\* incident listed or seen.
QuietDownstream ==
  /\ integration = [enabled |-> TRUE, token |-> TRUE,
                    projectID |-> GlobalProject, teams |-> << >>]
  /\ call = NoCall
  /\ requests = << >>
  /\ incidentState = [i \in IncidentIDs |-> NoIncidentState]
  /\ feed = [i \in IncidentIDs |-> NoIncident]

\* NewArgoCDWatcher: an empty event channel, no channel closed, no
\* goroutine started.
NewArgoCDWatcher ==
  /\ eventCh = << >>
  /\ closed = {}
  /\ wg = 0
  /\ ctxDone = FALSE
  /\ loop = "notStarted"
  /\ watches = [n \in Namespaces |-> At("notStarted")]
  /\ stops = [s \in Callers |-> "notCalled"]
  /\ panics = {}
  /\ dropped = 0
  /\ client = [argocd |-> TRUE, namespaces |-> Namespaces]
  /\ startErr = "notCalled"

Init ==
  /\ NewArgoCDWatcher
  /\ QuietDownstream
  /\ now = 1
  /\ redisUp = TRUE
  /\ processed = {}
  /\ devlake = {}
  /\ records = [k \in RecordKeys |-> NoRecord]
  /\ posts = EmptyBag
  /\ pc = [w \in Workers |-> "idle"]
  /\ app = [w \in Workers |-> NoApp]
  /\ appInfo = [w \in Workers |-> NoApp]
  /\ commitHistory = [w \in Workers |-> << >>]
  /\ idx = [w \in Workers |-> 0]
  /\ devlakeCommits = [w \in Workers |-> << >>]
  /\ arrival = [w \in Workers |-> NoArrival]

\* ------------------------------------------------------- storage/redis.go

\* (found, err) of the GET; err while Redis is down.
IsCommitProcessed(commitSHA, appName, clusterName) ==
  [processed |-> redisUp /\ <<commitSHA, appName, clusterName>> \in processed,
   err |-> ~redisUp]

MarkCommitAsProcessed(commitSHA, appName, clusterName) ==
  IF redisUp THEN processed \cup {<<commitSHA, appName, clusterName>>}
  ELSE processed

IsDevLakeCommitProcessed(commitSHA, component) ==
  [processed |-> redisUp /\ <<commitSHA, component>> \in devlake,
   err |-> ~redisUp]

MarkDevLakeCommitAsProcessed(commitSHA, component) ==
  IF redisUp THEN devlake \cup {<<commitSHA, component>>} ELSE devlake

StoreDeployment(deployment) ==
  IF redisUp
  THEN [records EXCEPT ![<<deployment.applicationName, deployment.clusterName>>] = deployment]
  ELSE records

\* The record, or NoRecord with err set ("deployment not found", or Redis down).
GetDeployment(appName, clusterName) ==
  IF redisUp /\ <<appName, clusterName>> \in RecordKeys
             /\ records[<<appName, clusterName>>] # NoRecord
  THEN [record |-> records[<<appName, clusterName>>], err |-> FALSE]
  ELSE [record |-> NoRecord, err |-> TRUE]

\* ----------------------------------------------------- processor/images.go

\* The code host as one call sees it: the commits whose authoring date it
\* returns (GetCommitDate), the repository its search finds for a commit
\* (FindRepositoryForCommit; NoURL when the search fails), and the commits
\* it lists for a compare of two tags (GetCommitHistoryBetween).
NoRepos == [sha \in CommitHashes |-> NoURL]
GitHubViews == [dated : SUBSET (Revs \cup LaterRevs), repo : {NoRepos}, between : {<< >>}]

EmptyCommit == [sha |-> "", message |-> << >>, repoURL |-> NoURL, createdAt |-> 0]

\* IsValidCommit: the tag matches the commit-hash pattern.
IsValidCommit(tag) == tag \in CommitHashes

extractTagFromImage(image) == image.tag

getBaseImage(image) == image.base

ExtractValidImages(images) ==
  SelectSeq(images, LAMBDA image :
    extractTagFromImage(image) # "" /\ IsValidCommit(extractTagFromImage(image)))

imageExistsInPrevious(image, previousImages) ==
  \E i \in 1..Len(previousImages) :
    getBaseImage(previousImages[i]) = getBaseImage(image)

FindChangedImages(currentImages, previousImages) ==
  SelectSeq(currentImages, LAMBDA image : ~imageExistsInPrevious(image, previousImages))

\* strings.ToLower, TrimSuffix ".git", TrimSuffix "/", "http://" to
\* "https://", in this order and once each.
normalizeRepoURL(repoURL) ==
  IF repoURL = NoURL THEN NoURL
  ELSE LET t1 == IF Len(repoURL.tail) > 0 /\ repoURL.tail[Len(repoURL.tail)] = ".git"
                 THEN SubSeq(repoURL.tail, 1, Len(repoURL.tail) - 1)
                 ELSE repoURL.tail
           t2 == IF Len(t1) > 0 /\ t1[Len(t1)] = "/"
                 THEN SubSeq(t1, 1, Len(t1) - 1)
                 ELSE t1
       IN  [scheme |-> IF repoURL.scheme = "http" THEN "https" ELSE repoURL.scheme,
            upper |-> FALSE,
            repo |-> repoURL.repo,
            tail |-> t2]

\* The history first, then the search of the code host, then
\* infra-deployments.  a is the worker's copy of the application object.
findRepositoryForCommit(a, commitSHA, gh) ==
  IF a.repoURLs[commitSHA] # NoURL THEN a.repoURLs[commitSHA]
  ELSE IF gh.repo[commitSHA] # NoURL THEN gh.repo[commitSHA]
  ELSE InfraDeploymentsURL

\* The compare is asked for only when a previous image has the base of the
\* image; its commits carry the repository URL found for the current tag.
GetCommitHistoryForImage(a, image, previousImages, gh) ==
  LET same == {i \in 1..Len(previousImages) :
                 getBaseImage(previousImages[i]) = getBaseImage(image)}
      previousTag ==
        IF same = {} THEN ""
        ELSE extractTagFromImage(previousImages[CHOOSE i \in same : \A j \in same : i <= j])
      currentTag == extractTagFromImage(image)
      repoURL == IF gh.repo[currentTag] # NoURL THEN gh.repo[currentTag]
                 ELSE a.repoURLs[currentTag]
  IN  IF previousTag = "" \/ repoURL = NoURL THEN << >>
      ELSE [i \in 1..Len(gh.between) |->
              [sha |-> gh.between[i].sha,
               message |-> gh.between[i].message,
               repoURL |-> repoURL,
               createdAt |-> gh.between[i].createdAt]]

\* getCommitInfo fails when the commit date is zero; the message falls back
\* to "Commit <sha>" and is never empty; createCommitInfo normalizes the
\* repository URL.
createCommitFromSHA(a, commitSHA, gh) ==
  IF commitSHA \in gh.dated
  THEN [sha |-> commitSHA,
        message |-> <<"message of", commitSHA>>,
        repoURL |-> normalizeRepoURL(findRepositoryForCommit(a, commitSHA, gh)),
        createdAt |-> 1]
  ELSE EmptyCommit

isCommitAlreadyAdded(commits, sha) ==
  \E i \in 1..Len(commits) : commits[i].sha = sha

RECURSIVE addImageCommits(_, _, _, _, _)
addImageCommits(a, commits, images, skip, gh) ==
  IF images = << >> THEN commits
  ELSE LET tag == extractTagFromImage(Head(images))
           c == createCommitFromSHA(a, tag, gh)
       IN  IF tag = "" \/ tag = skip \/ isCommitAlreadyAdded(commits, tag) \/ c.sha = ""
           THEN addImageCommits(a, commits, Tail(images), skip, gh)
           ELSE addImageCommits(a, Append(commits, c), Tail(images), skip, gh)

RECURSIVE addUnseen(_, _)
addUnseen(commits, found) ==
  IF found = << >> THEN commits
  ELSE IF isCommitAlreadyAdded(commits, Head(found).sha)
       THEN addUnseen(commits, Tail(found))
       ELSE addUnseen(
              Append(commits,
                     [Head(found) EXCEPT !.repoURL = normalizeRepoURL(Head(found).repoURL)]),
              Tail(found))

RECURSIVE addHistoryOfImages(_, _, _, _, _)
addHistoryOfImages(a, commits, changedImages, previousImages, gh) ==
  IF changedImages = << >> THEN commits
  ELSE addHistoryOfImages(a,
         addUnseen(commits, GetCommitHistoryForImage(a, Head(changedImages), previousImages, gh)),
         Tail(changedImages), previousImages, gh)

\* prev is the answer of GetDeployment(appInfo.Component, appInfo.Cluster).
getCommitHistoryForChangedImages(a, info, validImages, prev, gh) ==
  LET revisionCommit == createCommitFromSHA(a, info.revision, gh)
  IN  IF info.revision = "" THEN [commits |-> << >>, err |-> FALSE]
      ELSE IF revisionCommit.sha = "" THEN [commits |-> << >>, err |-> TRUE]
      ELSE IF prev.err \/ prev.record = NoRecord
           THEN [commits |-> addImageCommits(a, <<revisionCommit>>, validImages, "", gh),
                 err |-> FALSE]
           ELSE [commits |->
                   addHistoryOfImages(a, <<revisionCommit>>,
                     FindChangedImages(validImages, prev.record.images),
                     prev.record.images, gh),
                 err |-> FALSE]

createCommitsFromImages(a, info, validImages, gh) ==
  IF info.revision = "" THEN << >>
  ELSE LET revisionCommit == createCommitFromSHA(a, info.revision, gh)
       IN  addImageCommits(a,
             IF revisionCommit.sha # "" THEN <<revisionCommit>> ELSE << >>,
             validImages, info.revision, gh)

\* NewCommitProcessor: the blacklist of the commit processor is the list its
\* caller passes.
NewCommitProcessor(repositoryBlacklist) == [blacklist |-> repositoryBlacklist]

\* NewEventProcessor: NewCommitProcessor(githubClient, storage); the
\* RepositoryBlacklist of the configuration is not passed on.
commitProcessor == NewCommitProcessor(<< >>)

\* With an empty blacklist the commits are returned as they are; otherwise
\* a commit is removed when its normalized repository URL is the
\* normalized form of an entry.
filterBlacklistedRepos(commits) ==
  IF Len(commitProcessor.blacklist) = 0 THEN commits
  ELSE SelectSeq(commits, LAMBDA commit :
         ~\E i \in 1..Len(commitProcessor.blacklist) :
            normalizeRepoURL(commitProcessor.blacklist[i]) = normalizeRepoURL(commit.repoURL))

\* gh1 answers the calls of getCommitHistoryForChangedImages, gh2 those of
\* createCommitsFromImages.
GetCommitHistoryForDeployment(a, info, prev, gh1, gh2) ==
  IF info.revision = "" THEN << >>
  ELSE LET validImages == ExtractValidImages(info.images)
           changed == getCommitHistoryForChangedImages(a, info, validImages, prev, gh1)
           history == IF changed.err THEN << >> ELSE changed.commits
       IN  filterBlacklistedRepos(
             IF Len(history) = 0
             THEN createCommitsFromImages(a, info, validImages, gh2)
             ELSE history)

commitHistoryToStrings(commits) == [i \in 1..Len(commits) |-> commits[i].sha]

\* --------------------------------------------------- parser/formatter.go

determineResult(a) == IF a.health = "Unhealthy" THEN "FAILED" ELSE "SUCCESS"

\* fmt.Sprintf("ArgoCD Deployment | Component: %s | Namespace: %s |
\* Revision: %s | Status: %s | Deployed: %s", ...), kept as its arguments.
DisplayTitle(a, info, result) ==
  [component |-> IF info.component = "" THEN a.name ELSE info.component,
   namespace |-> IF info.namespace = "" THEN a.namespace ELSE info.namespace,
   revision |-> info.revision,
   status |-> result,
   deployed |-> info.deployedAt]

\* One entry of createDevLakeCommits; repoURL is the repository URL the
\* history has for the deployment, used when the commit has none.
DevLakeCommit(commit, deployedAt, repoURL) ==
  [repoUrl |-> IF commit.repoURL = NoURL THEN repoURL ELSE commit.repoURL,
   refName |-> commit.sha,
   commitSha |-> commit.sha,
   startedDate |-> commit.createdAt,
   finishedDate |-> deployedAt,
   commitMsg |-> commit.message,
   result |-> "SUCCESS",
   displayTitle |-> commit.message,
   name |-> commit.message]

\* calculateTimeline: the earliest startedDate of the commits.
RECURSIVE earliestStarted(_, _)
earliestStarted(commits, best) ==
  IF commits = << >> THEN best
  ELSE earliestStarted(Tail(commits),
         IF Head(commits).startedDate < best THEN Head(commits).startedDate ELSE best)

FormatDeployment(a, info, deployedAt, commits) ==
  [id |-> info.revision,
   createdDate |-> deployedAt,
   startedDate |-> earliestStarted(commits, commits[1].startedDate),
   finishedDate |-> deployedAt,
   environment |-> "PRODUCTION",
   result |-> determineResult(a),
   displayTitle |-> DisplayTitle(a, info, determineResult(a)),
   name |-> <<"deploy to production", info.revision>>,
   deploymentCommits |-> commits]

\* ---------------------------------------------------- processor/event.go

\* sync=OutOfSync with health=Missing: a failed deployment.
isFailedDeployment(a) == a.sync = "OutOfSync" /\ a.health = "Missing"

\* The history check of handleModifiedEvent: the sync revision is the
\* revision of the last history entry.
isDeployedRevision(a) ==
  /\ Len(a.history) > 0
  /\ a.history[Len(a.history)].revision = a.revision

\* The lookup's answer ignored: the handler goes on whatever it finds.
notYetProcessedIgnored(lookup) == TRUE

\* Whether the handler goes on after its lookup of the processed marker:
\* on an error of the lookup it does (a warning is logged).
notYetProcessed(lookup) == lookup.err \/ ~lookup.processed

\* fmt.Sprintf("Deployment failed for %s - OutOfSync with Missing health",
\* app.Name), kept as its parts.
failedMsg(a) == <<"Deployment failed for", a.name, "- OutOfSync with Missing health">>

\* The override without the loop over the commits.
FailedDeploymentCommitsKept(a, info, deployment) ==
  [deployment EXCEPT
     !.result = "FAILED",
     !.displayTitle = DisplayTitle(a, info, "FAILED"),
     !.name = <<"deploy to production", info.revision>>]

\* The failed branch of processFailedDeployment: result, title and name
\* are overwritten, and every commit is rewritten to the failure message.
FailedDeployment(a, info, deployment) ==
  [deployment EXCEPT
     !.result = "FAILED",
     !.displayTitle = DisplayTitle(a, info, "FAILED"),
     !.name = <<"deploy to production", info.revision>>,
     !.deploymentCommits =
        [i \in 1..Len(deployment.deploymentCommits) |->
           [deployment.deploymentCommits[i] EXCEPT
              !.result = "FAILED",
              !.commitMsg = failedMsg(a),
              !.displayTitle = failedMsg(a),
              !.name = failedMsg(a)]]]

\* The DeploymentRecord of storeDeploymentRecord.
DeploymentRecord(a, info, commits) ==
  [applicationName |-> a.name,
   namespace |-> info.namespace,
   componentName |-> info.component,
   clusterName |-> info.cluster,
   revision |-> info.revision,
   images |-> ExtractValidImages(info.images),
   deployedAt |-> info.deployedAt,
   environment |-> info.environment,
   commitHistory |-> commitHistoryToStrings(commits)]

\* The DeploymentRecord of processFailedDeployment.
FailedDeploymentRecord(a, info) ==
  [applicationName |-> a.name,
   namespace |-> info.namespace,
   componentName |-> info.component,
   clusterName |-> info.cluster,
   revision |-> info.revision,
   images |-> info.images,
   deployedAt |-> info.deployedAt,
   environment |-> info.environment,
   commitHistory |-> <<info.revision>>]

\* The handler returns: the worker is back at its select.
Return(w) ==
  /\ pc' = [pc EXCEPT ![w] = "idle"]
  /\ app' = [app EXCEPT ![w] = NoApp]
  /\ appInfo' = [appInfo EXCEPT ![w] = NoApp]
  /\ commitHistory' = [commitHistory EXCEPT ![w] = << >>]
  /\ idx' = [idx EXCEPT ![w] = 0]
  /\ devlakeCommits' = [devlakeCommits EXCEPT ![w] = << >>]
  /\ arrival' = [arrival EXCEPT ![w] = NoArrival]

\* The workers take no events once MaxPosts fan-out calls are made or due.
Capacity ==
  BagCardinality(posts) + Cardinality({v \in Workers : pc[v] # "idle"}) < MaxPosts

\* HandleEvent on an ADDED event: dropped before the object is parsed.
SkipAddedEvent(w) ==
  /\ pc[w] = "idle"
  /\ UNCHANGED vars

\* handleDeletedEvent: logs the deletion.
handleDeletedEvent(w) ==
  /\ pc[w] = "idle"
  /\ UNCHANGED vars

\* What handleModifiedEvent does with the application object before it
\* touches the store: "failed" (processFailedDeployment), "deployment" (the
\* sync revision is the deployed one) or "skip" (it returns).
dispatch(a) ==
  IF ~ShouldMonitor(a) THEN "skip"
  ELSE IF isFailedDeployment(a) THEN "failed"
  ELSE IF isDeployedRevision(a) THEN "deployment"
  ELSE "skip"

\* The fan-out calls made for the deployment (application, revision) of an
\* event.
CallsFor(name, revision) ==
  {p \in BagToSet(posts) : p.app.name = name /\ p.deployment.id = revision}

\* What worker w finds when it takes the event: whether the processed marker
\* of the deployment exists, and the calls made for the deployment by
\* handlers that have returned (every other worker is at its select).
Arrival(w, a, info) ==
  [marked |-> <<info.revision, a.name, info.cluster>> \in processed,
   calls |-> IF \A v \in Workers \ {w} : pc[v] = "idle"
             THEN CallsFor(a.name, info.revision) ELSE {}]

\* HandleEvent on a MODIFIED event, up to the lookup of the processed marker.
handleModifiedEvent(w) ==
  /\ pc[w] = "idle"
  /\ Capacity
  /\ \E a \in Applications(now) :
       LET info == ParseApplication(a, now)
       IN  /\ dispatch(a) # "skip"
           /\ app' = [app EXCEPT ![w] = Snapshot(a)]
           /\ appInfo' = [appInfo EXCEPT ![w] = info]
           /\ arrival' = [arrival EXCEPT ![w] = Arrival(w, a, info)]
           /\ pc' = [pc EXCEPT ![w] = "check"]
  /\ UNCHANGED <<now, redisUp, store, posts, commitHistory, idx, devlakeCommits>>
  /\ UNCHANGED <<watcher, downstream>>

\* HandleEvent on a MODIFIED event that handleModifiedEvent skips: it logs
\* "skipping" and returns.
skipModifiedEvent(w) ==
  /\ pc[w] = "idle"
  /\ Capacity
  /\ \E a \in Applications(now) :
       /\ dispatch(a) = "skip"
       /\ app' = [app EXCEPT ![w] = Snapshot(a)]
  /\ pc' = [pc EXCEPT ![w] = "skipped"]
  /\ UNCHANGED <<now, redisUp, store, posts, appInfo, commitHistory, idx,
                 devlakeCommits, arrival>>
  /\ UNCHANGED <<watcher, downstream>>

HandleEvent(w) ==
  \/ SkipAddedEvent(w)
  \/ handleModifiedEvent(w)
  \/ skipModifiedEvent(w)
  \/ handleDeletedEvent(w)

\* The worker is back at its select after a skipped event.
NextEvent(w) ==
  /\ pc[w] \in {"skipped", "alreadyProcessed"}
  /\ Return(w)
  /\ UNCHANGED <<now, redisUp, store, posts>>
  /\ UNCHANGED <<watcher, downstream>>

\* IsCommitProcessed: when the marker is found the handler logs "already
\* processed, skipping" and returns.
CheckProcessed(w) ==
  /\ pc[w] = "check"
  /\ pc' = [pc EXCEPT ![w] =
       IF notYetProcessed(IsCommitProcessed(appInfo[w].revision, app[w].name, appInfo[w].cluster))
       THEN "mark" ELSE "alreadyProcessed"]
  /\ UNCHANGED <<now, redisUp, store, posts, locals>>
  /\ UNCHANGED <<watcher, downstream>>

\* MarkCommitAsProcessed; a failure is logged and the handler goes on.
MarkProcessed(w) ==
  /\ pc[w] = "mark"
  /\ processed' = MarkCommitAsProcessed(appInfo[w].revision, app[w].name, appInfo[w].cluster)
  /\ pc' = [pc EXCEPT ![w] = "history"]
  /\ UNCHANGED <<now, redisUp, devlake, records, posts, locals>>
  /\ UNCHANGED <<watcher, downstream>>

\* GetCommitHistoryForDeployment, with its read of the previous record;
\* with no commits the handler returns (processNewDeployment), or the
\* formatter finds no commits and the handler returns (failed branch).
BuildCommitHistory(w) ==
  /\ pc[w] = "history"
  /\ \E gh1 \in GitHubViews, gh2 \in GitHubViews :
       LET prev == GetDeployment(appInfo[w].component, appInfo[w].cluster)
           commits == GetCommitHistoryForDeployment(app[w], appInfo[w], prev, gh1, gh2)
       IN  IF Len(commits) = 0
           THEN Return(w)
           ELSE /\ commitHistory' = [commitHistory EXCEPT ![w] = commits]
                /\ idx' = [idx EXCEPT ![w] = 1]
                /\ devlakeCommits' = [devlakeCommits EXCEPT ![w] = << >>]
                /\ pc' = [pc EXCEPT ![w] = "format"]
                /\ UNCHANGED <<app, appInfo, arrival>>
  /\ UNCHANGED <<now, redisUp, store, posts>>
  /\ UNCHANGED <<watcher, downstream>>

\* createDevLakeCommits moves on to the next commit, or is done: with no
\* payload commits FormatDeployment reports hasCommits = false.
NextCommit(w, built) ==
  IF idx[w] < Len(commitHistory[w])
  THEN /\ idx' = [idx EXCEPT ![w] = idx[w] + 1]
       /\ devlakeCommits' = [devlakeCommits EXCEPT ![w] = built]
       /\ pc' = [pc EXCEPT ![w] = "format"]
       /\ UNCHANGED <<app, appInfo, commitHistory, arrival>>
  ELSE IF Len(built) = 0
       THEN Return(w)
       ELSE /\ devlakeCommits' = [devlakeCommits EXCEPT ![w] = built]
            /\ pc' = [pc EXCEPT ![w] = "send"]
            /\ UNCHANGED <<app, appInfo, commitHistory, idx, arrival>>

\* createDevLakeCommits, one commit: the lookup of the per-component key,
\* then the payload entry.
FormatCommit(w) ==
  /\ pc[w] = "format"
  /\ LET commit == commitHistory[w][idx[w]]
         lookup == IsDevLakeCommitProcessed(commit.sha, appInfo[w].component)
     IN  IF (~lookup.err /\ lookup.processed) \/ commit.createdAt = 0
         THEN NextCommit(w, devlakeCommits[w])
         ELSE /\ devlakeCommits' = [devlakeCommits EXCEPT ![w] =
                    Append(devlakeCommits[w],
                           DevLakeCommit(commit, appInfo[w].deployedAt,
                                         app[w].repoURLs[appInfo[w].revision]))]
              /\ pc' = [pc EXCEPT ![w] = "formatMark"]
              /\ UNCHANGED <<app, appInfo, commitHistory, idx, arrival>>
  /\ UNCHANGED <<now, redisUp, store, posts>>
  /\ UNCHANGED <<watcher, downstream>>

\* createDevLakeCommits, one commit: MarkDevLakeCommitAsProcessed.
MarkDevLakeCommit(w) ==
  /\ pc[w] = "formatMark"
  /\ devlake' = MarkDevLakeCommitAsProcessed(commitHistory[w][idx[w]].sha, appInfo[w].component)
  /\ NextCommit(w, devlakeCommits[w])
  /\ UNCHANGED <<now, redisUp, processed, records, posts>>
  /\ UNCHANGED <<watcher, downstream>>

\* The payload the handler sends.
Payload(w) ==
  LET deployment ==
        FormatDeployment(app[w], appInfo[w], appInfo[w].deployedAt, devlakeCommits[w])
  IN  IF isFailedDeployment(app[w])
      THEN FailedDeployment(app[w], appInfo[w], deployment)
      ELSE deployment

\* The handler returning the error of the fan-out call instead of going on
\* to store the record.
SendDeploymentReturnsError(w) ==
  /\ pc[w] = "send"
  /\ \E ok \in BOOLEAN :
       /\ posts' = posts (+) SetToBag({[deployment |-> Payload(w), ok |-> ok, app |-> app[w]]})
       /\ IF ok
          THEN pc' = [pc EXCEPT ![w] = "store"] /\ UNCHANGED locals
          ELSE Return(w)
  /\ UNCHANGED <<now, redisUp, store>>
  /\ UNCHANGED <<watcher, downstream>>

\* sendDeploymentToDevLake: the fan-out call; its error is logged only.
\* A call is recorded with its payload, its outcome and the application
\* object of the event it was made for.
SendDeployment(w) ==
  /\ pc[w] = "send"
  /\ \E ok \in BOOLEAN :
       posts' = posts (+) SetToBag({[deployment |-> Payload(w), ok |-> ok, app |-> app[w]]})
  /\ pc' = [pc EXCEPT ![w] = "store"]
  /\ UNCHANGED <<now, redisUp, store, locals>>
  /\ UNCHANGED <<watcher, downstream>>

\* storeDeploymentRecord (or the record of processFailedDeployment).
StoreRecord(w) ==
  /\ pc[w] = "store"
  /\ records' = StoreDeployment(
       IF isFailedDeployment(app[w])
       THEN FailedDeploymentRecord(app[w], appInfo[w])
       ELSE DeploymentRecord(app[w], appInfo[w], commitHistory[w]))
  /\ Return(w)
  /\ UNCHANGED <<now, redisUp, processed, devlake, posts>>
  /\ UNCHANGED <<watcher, downstream>>

\* ------------------------------------------------------------ environment

Tick ==
  /\ now < MaxTime
  /\ now' = now + 1
  /\ UNCHANGED <<redisUp, store, posts, pc, locals>>
  /\ UNCHANGED <<watcher, downstream>>

RedisFails ==
  /\ redisUp
  /\ redisUp' = FALSE
  /\ UNCHANGED <<now, store, posts, pc, locals>>
  /\ UNCHANGED <<watcher, downstream>>

RedisRecovers ==
  /\ ~redisUp
  /\ redisUp' = TRUE
  /\ UNCHANGED <<now, store, posts, pc, locals>>
  /\ UNCHANGED <<watcher, downstream>>

Next ==
  \/ \E w \in Workers :
       \/ HandleEvent(w)
       \/ NextEvent(w)
       \/ CheckProcessed(w)
       \/ MarkProcessed(w)
       \/ BuildCommitHistory(w)
       \/ FormatCommit(w)
       \/ MarkDevLakeCommit(w)
       \/ SendDeployment(w)
       \/ StoreRecord(w)
  \/ Tick
  \/ RedisFails
  \/ RedisRecovers

Spec == Init /\ [][Next]_vars

\* The same workers with Redis available throughout.
NextAvailable ==
  \/ \E w \in Workers :
       \/ HandleEvent(w)
       \/ NextEvent(w)
       \/ CheckProcessed(w)
       \/ MarkProcessed(w)
       \/ BuildCommitHistory(w)
       \/ FormatCommit(w)
       \/ MarkDevLakeCommit(w)
       \/ SendDeployment(w)
       \/ StoreRecord(w)
  \/ Tick

SpecAvailable == Init /\ [][NextAvailable]_vars

\* ------------------------------------------ two revisions of an application

\* The application objects of the events that follow two syncs of an
\* application: Synced and Healthy, the sync revision the last entry of the
\* history.
RevisionApplications(t) ==
  {[name |-> n, namespace |-> ns, sync |-> "Synced", health |-> "Healthy",
    revision |-> r,
    history |-> <<[revision |-> r, deployedAt |-> d, repoURL |-> InfraDeploymentsURL]>>,
    images |-> << >>] :
     n \in AppNames, ns \in Namespaces, r \in Revs \cup LaterRevs, d \in 1..t}

\* HandleEvent on the MODIFIED event of a sync, up to the lookup of the
\* processed marker.
handleSyncEvent(w) ==
  /\ pc[w] = "idle"
  /\ Capacity
  /\ \E a \in RevisionApplications(now) :
       LET info == ParseApplication(a, now)
       IN  /\ dispatch(a) # "skip"
           /\ app' = [app EXCEPT ![w] = Snapshot(a)]
           /\ appInfo' = [appInfo EXCEPT ![w] = info]
           /\ arrival' = [arrival EXCEPT ![w] = Arrival(w, a, info)]
           /\ pc' = [pc EXCEPT ![w] = "check"]
  /\ UNCHANGED <<now, redisUp, store, posts, commitHistory, idx, devlakeCommits>>
  /\ UNCHANGED <<watcher, downstream>>

NextRevisions ==
  \/ \E w \in Workers :
       \/ handleSyncEvent(w)
       \/ NextEvent(w)
       \/ CheckProcessed(w)
       \/ MarkProcessed(w)
       \/ BuildCommitHistory(w)
       \/ FormatCommit(w)
       \/ MarkDevLakeCommit(w)
       \/ SendDeployment(w)
       \/ StoreRecord(w)
  \/ Tick

SpecRevisions == Init /\ [][NextRevisions]_vars

\* ------------------------------------- one handler, with images deployed

\* The events of a component whose deployments carry an image, and the
\* state an earlier deployment of it (revision r0, image tag t1) has left.
ImageBase == "quay.io/org/app"
CurrentImages ==
  {<< >>,
   <<[base |-> ImageBase, tag |-> "t2"]>>,
   <<[base |-> ImageBase, tag |-> "latest"]>>}
PreviousImages == <<[base |-> ImageBase, tag |-> "t1"]>>

ApplicationsWithImages(t) ==
  [name : AppNames, namespace : Namespaces, sync : SyncStatuses,
   health : HealthStatuses, revision : Revs \cup {""},
   history : Histories(t), images : CurrentImages]

\* The commits the code host lists for the compare of t1 and t2.
RangeCommits ==
  <<[sha |-> "t15", message |-> <<"message of", "t15">>, createdAt |-> 1],
    [sha |-> "t2", message |-> <<"message of", "t2">>, createdAt |-> 1]>>

\* The repositories the search of the code host finds for the image tag.
FoundRepos ==
  {NoURL} \cup {u \in RepoURLs : u.scheme = "https" /\ ~u.upper}

CodeHostViews ==
  [dated : SUBSET {"r1", "t2"},
   repo : {[NoRepos EXCEPT !["t2"] = u] : u \in FoundRepos},
   between : {<< >>, RangeCommits}]

\* The record storeDeploymentRecord wrote for the earlier deployment.
PreviousRecord ==
  [applicationName |-> "ui-c1",
   namespace |-> "prod",
   componentName |-> "ui",
   clusterName |-> "c1",
   revision |-> "r0",
   images |-> PreviousImages,
   deployedAt |-> 1,
   environment |-> "production",
   commitHistory |-> <<"r0", "t1">>]

InitCommits ==
  /\ NewArgoCDWatcher
  /\ QuietDownstream
  /\ now = 1
  /\ redisUp = TRUE
  /\ \E deployed \in BOOLEAN :
       /\ processed = IF deployed THEN {<<"r0", "ui-c1", "c1">>} ELSE {}
       /\ devlake = IF deployed THEN {<<"r0", "ui">>, <<"t1", "ui">>} ELSE {}
       /\ records = [k \in RecordKeys |->
                       IF deployed /\ k = <<"ui-c1", "c1">> THEN PreviousRecord ELSE NoRecord]
  /\ posts = EmptyBag
  /\ pc = [w \in Workers |-> "idle"]
  /\ app = [w \in Workers |-> NoApp]
  /\ appInfo = [w \in Workers |-> NoApp]
  /\ commitHistory = [w \in Workers |-> << >>]
  /\ idx = [w \in Workers |-> 0]
  /\ devlakeCommits = [w \in Workers |-> << >>]
  /\ arrival = [w \in Workers |-> NoArrival]

\* createDevLakeCommits run from its first commit to its last with no other
\* handler at work: the payload commits, and the per-component keys as the
\* loop leaves them.
\* createDevLakeCommits taking the commits without a creation date too.
RECURSIVE createDevLakeCommitsUndated(_, _, _, _, _, _)
createDevLakeCommitsUndated(commits, deployedAt, repoURL, component, built, keys) ==
  IF commits = << >> THEN [commits |-> built, keys |-> keys]
  ELSE IF <<Head(commits).sha, component>> \in keys
       THEN createDevLakeCommitsUndated(Tail(commits), deployedAt, repoURL, component, built, keys)
       ELSE createDevLakeCommitsUndated(Tail(commits), deployedAt, repoURL, component,
              Append(built, DevLakeCommit(Head(commits), deployedAt, repoURL)),
              keys \cup {<<Head(commits).sha, component>>})

RECURSIVE createDevLakeCommits(_, _, _, _, _, _)
createDevLakeCommits(commits, deployedAt, repoURL, component, built, keys) ==
  IF commits = << >> THEN [commits |-> built, keys |-> keys]
  ELSE IF <<Head(commits).sha, component>> \in keys \/ Head(commits).createdAt = 0
       THEN createDevLakeCommits(Tail(commits), deployedAt, repoURL, component, built, keys)
       ELSE createDevLakeCommits(Tail(commits), deployedAt, repoURL, component,
              Append(built, DevLakeCommit(Head(commits), deployedAt, repoURL)),
              keys \cup {<<Head(commits).sha, component>>})

\* HandleEvent on a MODIFIED event, from the lookup of the processed marker
\* to its return, with Redis up and no other handler at work.  The code
\* host answers every call of the handler from the same view gh.
HandleEventAlone(w) ==
  /\ \A v \in Workers : pc[v] = "idle"
  /\ \E a \in ApplicationsWithImages(now), gh \in CodeHostViews, ok \in BOOLEAN :
       LET info == ParseApplication(a, now)
           snap == Snapshot(a)
           prev == GetDeployment(info.component, info.cluster)
           commits == GetCommitHistoryForDeployment(snap, info, prev, gh, gh)
           made == createDevLakeCommits(commits, info.deployedAt,
                     snap.repoURLs[info.revision], info.component, << >>, devlake)
           formatted == FormatDeployment(snap, info, info.deployedAt, made.commits)
           deployment == IF isFailedDeployment(a)
                         THEN FailedDeployment(snap, info, formatted)
                         ELSE formatted
           emitted == /\ Len(made.commits) > 0
                      /\ (isFailedDeployment(a) \/ Len(commits) > 0)
       IN  /\ dispatch(a) # "skip"
           /\ notYetProcessed(IsCommitProcessed(info.revision, a.name, info.cluster))
           /\ processed' = MarkCommitAsProcessed(info.revision, a.name, info.cluster)
           /\ devlake' = made.keys
           /\ posts' = IF emitted
                       THEN posts (+) SetToBag({[deployment |-> deployment, ok |-> ok, app |-> snap]})
                       ELSE posts
           /\ records' = IF ~emitted THEN records
                         ELSE StoreDeployment(
                                IF isFailedDeployment(a)
                                THEN FailedDeploymentRecord(snap, info)
                                ELSE DeploymentRecord(snap, info, commits))
           /\ app' = [app EXCEPT ![w] = snap]
           /\ appInfo' = [appInfo EXCEPT ![w] = info]
           /\ commitHistory' = [commitHistory EXCEPT ![w] = commits]
           /\ devlakeCommits' = [devlakeCommits EXCEPT ![w] = made.commits]
           /\ arrival' = [arrival EXCEPT ![w] =
                [marked |-> FALSE, calls |-> {}, host |-> gh,
                 previous |-> records[<<a.name, info.cluster>>],
                 read |-> prev.record]]
           /\ pc' = [pc EXCEPT ![w] = "returned"]
  /\ UNCHANGED <<now, redisUp, idx>>
  /\ UNCHANGED <<watcher, downstream>>

NextCommits == \E w \in Workers : HandleEventAlone(w)

SpecCommits == InitCommits /\ [][NextCommits]_vars

\* ------------------------------------------------------- api/watcher.go

\* The events a watch delivers.
WatchEvents == {"MODIFIED", "DELETED"}

\* The clients a watcher can be built with: GetArgoCDClient may return
\* nil, GetNamespaces may return no namespace.
Clients == [argocd : BOOLEAN, namespaces : SUBSET Namespaces]

\* The watcher as NewArgoCDWatcher returns it, Start not yet called.  The
\* handlers of the workers are left out: a worker that took an event is at
\* "handling" until handleEvent returns or panics.
InitWatcher ==
  /\ eventCh = << >>
  /\ closed = {}
  /\ wg = 0
  /\ ctxDone = FALSE
  /\ loop = "notStarted"
  /\ watches = [n \in Namespaces |-> At("notStarted")]
  /\ stops = [s \in Callers |-> "notCalled"]
  /\ panics = {}
  /\ dropped = 0
  /\ client \in Clients
  /\ startErr = "notCalled"
  /\ QuietDownstream
  /\ now = 1
  /\ redisUp = TRUE
  /\ processed = {}
  /\ devlake = {}
  /\ records = [k \in RecordKeys |-> NoRecord]
  /\ posts = EmptyBag
  /\ pc = [w \in Workers |-> "notStarted"]
  /\ app = [w \in Workers |-> NoApp]
  /\ appInfo = [w \in Workers |-> NoApp]
  /\ commitHistory = [w \in Workers |-> << >>]
  /\ idx = [w \in Workers |-> 0]
  /\ devlakeCommits = [w \in Workers |-> << >>]
  /\ arrival = [w \in Workers |-> NoArrival]

\* What the watcher's goroutines leave alone.
handlers == <<now, redisUp, store, posts, locals>>

\* A panic ends the process.
Running == panics = {}

\* Start: wg.Add(1) and a goroutine for every worker, wg.Add(1) and the
\* watchLoop goroutine, return nil.
Start ==
  /\ Running
  /\ startErr = "notCalled"
  /\ wg' = wg + Cardinality(Workers) + 1
  /\ pc' = [w \in Workers |-> "idle"]
  /\ loop' = "start"
  /\ startErr' = "nil"
  /\ UNCHANGED <<eventCh, closed, ctxDone, watches, stops, panics, dropped, client>>
  /\ UNCHANGED <<handlers, downstream>>

\* eventWorker, its select: an event is received (or the closed, empty
\* channel answers and the worker returns), or the context or stopCh is
\* done and the worker returns; with several cases ready any is taken.
eventWorker(w) ==
  /\ Running
  /\ pc[w] = "idle"
  /\ \/ /\ Len(eventCh) > 0
        /\ eventCh' = Tail(eventCh)
        /\ pc' = [pc EXCEPT ![w] = "handling"]
        /\ wg' = wg
     \/ /\ \/ (Len(eventCh) = 0 /\ "eventCh" \in closed)
           \/ ctxDone
           \/ "stopCh" \in closed
        /\ pc' = [pc EXCEPT ![w] = "exited"]
        /\ wg' = wg - 1
        /\ eventCh' = eventCh
  /\ UNCHANGED <<closed, ctxDone, loop, watches, stops, panics, dropped, setup>>
  /\ UNCHANGED <<handlers, downstream>>

\* handleEvent returns (an error is logged) and the worker is back at its
\* select, or the handler panics: the worker has no recover and the panic
\* leaves the goroutine.
handleEvent(w) ==
  /\ Running
  /\ pc[w] = "handling"
  /\ \E panicked \in BOOLEAN :
       IF panicked
       THEN /\ panics' = panics \cup {<<w, "panic in HandleEvent">>}
            /\ pc' = pc
       ELSE /\ pc' = [pc EXCEPT ![w] = "idle"]
            /\ panics' = panics
  /\ UNCHANGED <<eventCh, closed, wg, ctxDone, loop, watches, stops, dropped, setup>>
  /\ UNCHANGED <<handlers, downstream>>

\* watchLoop: with no clientset or no namespace it logs and returns;
\* otherwise one goroutine per namespace is started with a plain go
\* statement, without wg.Add; then the loop waits for the context or
\* stopCh and returns (wg.Done).
watchLoop ==
  /\ Running
  /\ \/ /\ loop = "start"
        /\ IF ~client.argocd \/ client.namespaces = {}
           THEN /\ loop' = "exited"
                /\ wg' = wg - 1
                /\ watches' = watches
           ELSE /\ watches' = [n \in Namespaces |->
                                 IF n \in client.namespaces THEN At("retry") ELSE watches[n]]
                /\ loop' = "select"
                /\ wg' = wg
     \/ /\ loop = "select"
        /\ ctxDone \/ "stopCh" \in closed
        /\ loop' = "exited"
        /\ wg' = wg - 1
        /\ watches' = watches
  /\ UNCHANGED <<eventCh, closed, ctxDone, stops, panics, dropped, pc, setup>>
  /\ UNCHANGED <<handlers, downstream>>

\* watchNamespace, its retry loop: the goroutine returns when the context
\* or stopCh is done; otherwise (the default case) it lists and watches the
\* namespace, and tries again when that fails.
watchNamespace(n) ==
  /\ Running
  /\ watches[n].at = "retry"
  /\ IF ctxDone \/ "stopCh" \in closed
     THEN watches' = [watches EXCEPT ![n] = At("exited")]
     ELSE \E created \in BOOLEAN :
            watches' = [watches EXCEPT ![n] = At(IF created THEN "watching" ELSE "retry")]
  /\ UNCHANGED <<eventCh, closed, wg, ctxDone, loop, stops, panics, dropped, pc, setup>>
  /\ UNCHANGED <<handlers, downstream>>

\* processWatchEvents, its outer select: an event of the watch is received,
\* or the watch has ended, or the context or stopCh is done (the function
\* returns to the retry loop).
processWatchEvents(n) ==
  /\ Running
  /\ watches[n].at = "watching"
  /\ \/ /\ dropped < MaxDropped
        /\ \E event \in WatchEvents :
             watches' = [watches EXCEPT ![n] = [at |-> "sending", event |-> event]]
     \/ watches' = [watches EXCEPT ![n] = At("retry")]
  /\ UNCHANGED <<eventCh, closed, wg, ctxDone, loop, stops, panics, dropped, pc, setup>>
  /\ UNCHANGED <<handlers, downstream>>

\* The inner select on the event the goroutine holds: the send to eventCh
\* (ready when the channel has room; ready, and a panic, when the channel
\* is closed), the context, stopCh, and the default case, which is taken
\* when no other is ready and drops the event.  returned is where the
\* goroutine stands after the return of the function.
innerSelect(n, returned) ==
  LET isClosed == "eventCh" \in closed
         canSend == ~isClosed /\ Len(eventCh) < EventChCap
         done == ctxDone \/ "stopCh" \in closed
     IN  \/ /\ isClosed
            /\ panics' = panics \cup {<<n, "send on closed channel">>}
            /\ UNCHANGED <<eventCh, watches, dropped>>
         \/ /\ canSend
            /\ eventCh' = Append(eventCh, watches[n].event)
            /\ watches' = [watches EXCEPT ![n] = At("watching")]
            /\ UNCHANGED <<panics, dropped>>
         \/ /\ done
            /\ watches' = [watches EXCEPT ![n] = At(returned)]
            /\ UNCHANGED <<eventCh, panics, dropped>>
         \/ /\ ~isClosed /\ ~canSend /\ ~done
            /\ dropped' = dropped + 1
            /\ watches' = [watches EXCEPT ![n] = At("watching")]
            /\ UNCHANGED <<eventCh, panics>>

\* processWatchEvents, its inner select; its return leads back to the retry
\* loop of watchNamespace.
sendToEventCh(n) ==
  /\ Running
  /\ watches[n].at = "sending"
  /\ innerSelect(n, "retry")
  /\ UNCHANGED <<closed, wg, ctxDone, loop, stops, pc, setup>>
  /\ UNCHANGED <<handlers, downstream>>

\* Stop: close(w.stopCh), w.wg.Wait(), close(w.eventCh); the close of a
\* closed channel panics.
Stop(s) ==
  /\ Running
  /\ startErr # "notCalled"
  /\ \/ /\ stops[s] = "notCalled"
        /\ IF "stopCh" \in closed
           THEN /\ panics' = panics \cup {<<s, "close of closed channel">>}
                /\ UNCHANGED <<closed, stops>>
           ELSE /\ closed' = closed \cup {"stopCh"}
                /\ stops' = [stops EXCEPT ![s] = "wait"]
                /\ panics' = panics
     \/ /\ stops[s] = "wait"
        /\ wg = 0
        /\ stops' = [stops EXCEPT ![s] = "close"]
        /\ UNCHANGED <<closed, panics>>
     \/ /\ stops[s] = "close"
        /\ IF "eventCh" \in closed
           THEN /\ panics' = panics \cup {<<s, "close of closed channel">>}
                /\ UNCHANGED <<closed, stops>>
           ELSE /\ closed' = closed \cup {"eventCh"}
                /\ stops' = [stops EXCEPT ![s] = "returned"]
                /\ panics' = panics
  /\ UNCHANGED <<eventCh, wg, ctxDone, loop, watches, dropped, pc, setup>>
  /\ UNCHANGED <<handlers, downstream>>

\* The caller of Start cancels the context.
Cancel ==
  /\ Running
  /\ startErr # "notCalled"
  /\ ~ctxDone
  /\ ctxDone' = TRUE
  /\ UNCHANGED <<eventCh, closed, wg, loop, watches, stops, panics, dropped, pc, setup>>
  /\ UNCHANGED <<handlers, downstream>>

NextWatcher ==
  \/ Start
  \/ \E w \in Workers : eventWorker(w)
  \/ \E w \in Workers : handleEvent(w)
  \/ watchLoop
  \/ \E n \in Namespaces : watchNamespace(n)
  \/ \E n \in Namespaces : processWatchEvents(n)
  \/ \E n \in Namespaces : sendToEventCh(n)
  \/ \E s \in Callers : Stop(s)
  \/ Cancel

SpecWatcher == InitWatcher /\ [][NextWatcher]_vars

\* ------------------------------------- the watcher built on a RetryWatcher

\* watchNamespace: NewRetryWatcher("1", ...) is created (it fails only for
\* the resource versions "" and "0") and processRetryWatchEvents is
\* called; listing, watching and retrying are the RetryWatcher's.
watchNamespaceRetryWatcher(n) ==
  /\ Running
  /\ watches[n].at = "retry"
  /\ watches' = [watches EXCEPT ![n] = At("watching")]
  /\ UNCHANGED <<eventCh, closed, wg, ctxDone, loop, stops, panics, dropped, pc, setup>>
  /\ UNCHANGED <<handlers, downstream>>

\* processRetryWatchEvents, its outer select: an event is received, or the
\* result channel of the RetryWatcher is closed, or the context or stopCh
\* is done; in the last two cases the function returns, and watchNamespace
\* with it.
processRetryWatchEvents(n) ==
  /\ Running
  /\ watches[n].at = "watching"
  /\ \/ /\ dropped < MaxDropped
        /\ \E event \in WatchEvents :
             watches' = [watches EXCEPT ![n] = [at |-> "sending", event |-> event]]
     \/ watches' = [watches EXCEPT ![n] = At("exited")]
  /\ UNCHANGED <<eventCh, closed, wg, ctxDone, loop, stops, panics, dropped, pc, setup>>
  /\ UNCHANGED <<handlers, downstream>>

\* processRetryWatchEvents, its inner select; its return ends the goroutine.
sendToEventChRetryWatcher(n) ==
  /\ Running
  /\ watches[n].at = "sending"
  /\ innerSelect(n, "exited")
  /\ UNCHANGED <<closed, wg, ctxDone, loop, stops, pc, setup>>
  /\ UNCHANGED <<handlers, downstream>>

NextRetryWatcher ==
  \/ Start
  \/ \E w \in Workers : eventWorker(w)
  \/ \E w \in Workers : handleEvent(w)
  \/ watchLoop
  \/ \E n \in Namespaces : watchNamespaceRetryWatcher(n)
  \/ \E n \in Namespaces : processRetryWatchEvents(n)
  \/ \E n \in Namespaces : sendToEventChRetryWatcher(n)
  \/ \E s \in Callers : Stop(s)
  \/ Cancel

SpecRetryWatcher == InitWatcher /\ [][NextRetryWatcher]_vars

\* ------------------------------------------------ integrations/devlake.go

MaxTeams == 2

TeamNames == {"team-a", "team-b"}
TeamComponents == {"ui", "api"}
TeamConfigs == [name : TeamNames, projectID : ProjectIDs,
                argocdComponents : SUBSET TeamComponents]

\* The integrations the manager can register; token is whether
\* DEVLAKE_WEBHOOK_TOKEN is set in the environment.
Integrations == [enabled : BOOLEAN, token : BOOLEAN, projectID : {GlobalProject},
                 teams : SeqsUpTo(TeamConfigs, MaxTeams)]

\* The display titles, as the pieces their Sprintf calls join: the title of
\* the formatter (and of a failed deployment in processFailedDeployment),
\* and the title an older processFailedDeployment writes.
FormatterTitle(component, result) ==
  <<"ArgoCD Deployment | ", "Component: ", component, " |", " Namespace: prod", " |",
    " Revision: r1", " |", " Status: ", result, " |", " Deployed: 1">>

FailedDeploymentTitle(component) ==
  <<"Failed Deployment app: ", "ui-c1", ",", " ", "component: ", component, ",",
    " revision r1 (1)">>

\* The titles that carry a component.
TitlesOf(component) ==
  {FormatterTitle(component, "SUCCESS"), FormatterTitle(component, "FAILED"),
   FailedDeploymentTitle(component)}

\* The payloads handed to the integration; << >> is no title.
DevLakeCICDDeployments ==
  [id : {"r1"}, displayTitle : {<< >>} \cup UNION {TitlesOf(c) : c \in TeamComponents}]

\* strings.Index on the pieces of a title: the first position, 0 for none.
Index(title, piece) ==
  IF \E i \in 1..Len(title) : title[i] = piece
  THEN CHOOSE i \in 1..Len(title) :
         title[i] = piece /\ \A j \in 1..(i - 1) : title[j] # piece
  ELSE 0

\* strings.TrimSpace of a part of a title.
TrimSpace(pieces) ==
  IF pieces = << >> THEN ""
  ELSE IF Len(pieces) = 1 THEN pieces[1]
  ELSE pieces

extractComponentFromDisplayTitle(displayTitle) ==
  IF displayTitle = << >> THEN ""
  ELSE LET new == Index(displayTitle, "Component: ")
           old == Index(displayTitle, "component: ")
       IN  IF new # 0
           THEN LET rest == SubSeq(displayTitle, new + 1, Len(displayTitle))
                    end == Index(rest, " |")
                IN  IF end # 0 THEN TrimSpace(SubSeq(rest, 1, end - 1))
                    ELSE TrimSpace(rest)
           ELSE IF old # 0
           THEN LET rest == SubSeq(displayTitle, old + 1, Len(displayTitle))
                    end == Index(rest, ",")
                IN  IF end # 0 THEN TrimSpace(SubSeq(rest, 1, end - 1)) ELSE ""
           ELSE ""

RECURSIVE matchingTeams(_, _)
matchingTeams(teams, component) ==
  IF teams = << >> THEN << >>
  ELSE (IF component \in Head(teams).argocdComponents THEN <<Head(teams)>> ELSE << >>)
         \o matchingTeams(Tail(teams), component)

\* GetTeamsForComponent answering with every team.
GetTeamsForComponentAll(d, component) == d.teams

GetTeamsForComponent(d, component) ==
  IF component = "" \/ Len(d.teams) = 0 THEN << >>
  ELSE matchingTeams(d.teams, component)

\* sendDeploymentToProject: without the token no request is made; with it
\* one POST goes to the deployments endpoint of the project, and a
\* transport error or a status >= 400 is an error.
sendDeploymentToProject(d, deployment, projectID, accepted) ==
  IF ~d.token
  THEN [requests |-> << >>, err |-> "failed to get DevLake token"]
  ELSE [requests |-> <<[endpoint |-> "deployments", project |-> projectID,
                        payload |-> deployment, accepted |-> accepted]>>,
        err |-> IF accepted THEN "nil" ELSE "DevLake deployment API returned error"]

\* The global project, then the projects of the teams.
Targets(d, teams) ==
  <<[projectID |-> d.projectID, name |-> "global"]>>
    \o [i \in 1..Len(teams) |-> [projectID |-> teams[i].projectID, name |-> teams[i].name]]

\* The sends of SendDeploymentEvent from target i on; sent has the requests
\* made, the errors collected and successCount so far.  This one stops at
\* the first error.
RECURSIVE sendToTargetsUntilError(_, _, _, _, _, _)
sendToTargetsUntilError(d, deployment, targets, accepted, i, sent) ==
  IF i > Len(targets) \/ Len(sent.errors) > 0 THEN sent
  ELSE LET r == sendDeploymentToProject(d, deployment, targets[i].projectID, accepted[i])
       IN  sendToTargetsUntilError(d, deployment, targets, accepted, i + 1,
             [requests |-> sent.requests \o r.requests,
              errors |-> IF r.err = "nil" THEN sent.errors
                         ELSE Append(sent.errors, targets[i].name),
              successCount |-> IF r.err = "nil" THEN sent.successCount + 1
                               ELSE sent.successCount])

RECURSIVE sendToTargets(_, _, _, _, _, _)
sendToTargets(d, deployment, targets, accepted, i, sent) ==
  IF i > Len(targets) THEN sent
  ELSE LET r == sendDeploymentToProject(d, deployment, targets[i].projectID, accepted[i])
       IN  sendToTargets(d, deployment, targets, accepted, i + 1,
             [requests |-> sent.requests \o r.requests,
              errors |-> IF r.err = "nil" THEN sent.errors
                         ELSE Append(sent.errors, targets[i].name),
              successCount |-> IF r.err = "nil" THEN sent.successCount + 1
                               ELSE sent.successCount])

\* A new integration is registered.
InitFanOut ==
  /\ NewArgoCDWatcher
  /\ integration \in Integrations
  /\ call = NoCall
  /\ requests = << >>
  /\ incidentState = [i \in IncidentIDs |-> NoIncidentState]
  /\ feed = [i \in IncidentIDs |-> NoIncident]
  /\ now = 1
  /\ redisUp = TRUE
  /\ processed = {}
  /\ devlake = {}
  /\ records = [k \in RecordKeys |-> NoRecord]
  /\ posts = EmptyBag
  /\ pc = [w \in Workers |-> "idle"]
  /\ app = [w \in Workers |-> NoApp]
  /\ appInfo = [w \in Workers |-> NoApp]
  /\ commitHistory = [w \in Workers |-> << >>]
  /\ idx = [w \in Workers |-> 0]
  /\ devlakeCommits = [w \in Workers |-> << >>]
  /\ arrival = [w \in Workers |-> NoArrival]

\* SendDeploymentEvent: a disabled integration returns an error; otherwise
\* the payload is sent to the global project and to the project of every
\* team of the component, and the call fails only when no send succeeded.
\* accepted[i] is whether the i-th send is accepted by DevLake.
SendDeploymentEvent(deployment, accepted) ==
  /\ LET component == extractComponentFromDisplayTitle(deployment.displayTitle)
         teams == GetTeamsForComponent(integration, component)
         targets == Targets(integration, teams)
         sent == sendToTargets(integration, deployment, targets, accepted, 1,
                               [requests |-> << >>, errors |-> << >>, successCount |-> 0])
     IN  IF ~integration.enabled
         THEN /\ requests' = << >>
              /\ call' = [op |-> "SendDeploymentEvent", deployment |-> deployment,
                          errors |-> << >>, successCount |-> 0,
                          err |-> "devlake integration is disabled"]
         ELSE /\ requests' = sent.requests
              /\ call' = [op |-> "SendDeploymentEvent", deployment |-> deployment,
                          errors |-> sent.errors, successCount |-> sent.successCount,
                          err |-> IF Len(sent.errors) > 0 /\ sent.successCount = 0
                                  THEN "failed to send deployment to all projects"
                                  ELSE "nil"]
  /\ UNCHANGED <<integration, incidentState, feed>>
  /\ UNCHANGED <<handlers, pc, watcher>>

NextFanOut ==
  \E deployment \in DevLakeCICDDeployments, accepted \in [1..(MaxTeams + 1) -> BOOLEAN] :
    SendDeploymentEvent(deployment, accepted)

SpecFanOut == InitFanOut /\ [][NextFanOut]_vars

\* ------------------------------------- parser/application.go, any configuration

\* An application name as its labels between dashes: "ui-c1" is
\* <<"ui", "c1">>.
MonitorNames == {<<"ui", "c1">>, <<"api", "c2">>, <<"docs", "c1">>, <<"ui">>}
MonitorNamespaces == {"prod", "dev"}
MonitorApps == [name : MonitorNames, namespace : MonitorNamespaces]

\* The configurations of the parser: the list isComponentMonitored reads
\* and the list of components to ignore of api.Config.
ParserConfigs ==
  [enabled : BOOLEAN,
   namespaces : SUBSET MonitorNamespaces,
   componentsToMonitor : SUBSET {"ui", "api"},
   componentsToIgnore : SUBSET {"ui"},
   knownClusters : {<< >>, <<"c1">>, <<"c1", "c2">>}]

\* strings.HasSuffix(name, "-" + cluster)
HasClusterSuffix(name, cluster) == Len(name) >= 2 /\ name[Len(name)] = cluster

\* parseApplicationName with the configuration p: the first known cluster
\* the name ends with, and the name without it.
parseApplicationNameOf(p, name) ==
  LET hit == {i \in 1..Len(p.knownClusters) : HasClusterSuffix(name, p.knownClusters[i])}
  IN  IF hit = {} THEN [environment |-> "", component |-> << >>, cluster |-> ""]
      ELSE [environment |-> "production",
            component |-> SubSeq(name, 1, Len(name) - 1),
            cluster |-> p.knownClusters[CHOOSE i \in hit : \A j \in hit : i <= j]]

isComponentMonitoredOf(p, component) ==
  \E c \in p.componentsToMonitor : <<c>> = component

ShouldMonitorOf(p, a) ==
  IF ~p.enabled THEN FALSE
  ELSE IF a.namespace \notin p.namespaces THEN FALSE
  ELSE LET parsed == parseApplicationNameOf(p, a.name)
       IN  IF ~isComponentMonitoredOf(p, parsed.component) THEN FALSE
           ELSE IF ~(\E i \in 1..Len(p.knownClusters) : p.knownClusters[i] = parsed.cluster)
           THEN FALSE
           ELSE TRUE

InitMonitor ==
  /\ NewArgoCDWatcher
  /\ QuietDownstream
  /\ now = 1
  /\ redisUp = TRUE
  /\ processed = {}
  /\ devlake = {}
  /\ records = [k \in RecordKeys |-> NoRecord]
  /\ posts = EmptyBag
  /\ pc = [w \in Workers |-> "idle"]
  /\ app = [w \in Workers |-> NoApp]
  /\ appInfo = [w \in Workers |-> NoApp]
  /\ commitHistory = [w \in Workers |-> << >>]
  /\ idx = [w \in Workers |-> 0]
  /\ devlakeCommits = [w \in Workers |-> << >>]
  /\ arrival = [w \in Workers |-> NoArrival]

\* The watcher asks the parser of configuration p about application a.
AskShouldMonitor(p, a) ==
  /\ call' = [op |-> "ShouldMonitor", config |-> p, app |-> a,
              monitored |-> ShouldMonitorOf(p, a)]
  /\ UNCHANGED <<integration, requests, incidentState, feed>>
  /\ UNCHANGED <<handlers, pc, watcher>>

NextMonitor == \E p \in ParserConfigs, a \in MonitorApps : AskShouldMonitor(p, a)

SpecMonitor == InitMonitor /\ [][NextMonitor]_vars

\* ------------------------------------------------- webrca: the incidents

MaxPolls == 3

\* The raw statuses of the WebRCA API; "Resolved" is "resolved" written
\* with a capital.
Statuses == {"open", "in_progress", "resolved", "closed", "Resolved"}

\* strings.ToLower on the statuses.
ToLower(status) == IF status = "Resolved" THEN "resolved" ELSE status

\* An incident as listed: its status, its products, and its resolved_at
\* and updated_at, 0 for none.
Incidents ==
  [status : Statuses, products : {<<"konflux">>, <<"hcp">>},
   resolvedAt : {0, 1}, updatedAt : {0, 2}]

\* The order in which GetAllIncidents lists the incidents.
IncidentOrder == <<"ITN-1">>

\* IsKonfluxIncident answering yes for every incident.
IsAnyIncident(incident) == TRUE

IsKonfluxIncident(incident) ==
  \E i \in 1..Len(incident.products) : incident.products[i] = "konflux"

IsResolved(incident) == incident.status = "resolved" \/ incident.status = "closed"

\* FormatDevLakeDate: "" for the zero time.
FormatDevLakeDate(t) == IF t = 0 THEN "" ELSE <<"2006-01-02T15:04:05+00:00", t>>

mapToDevLakeStatus(webrcaStatus, isResolved) ==
  IF isResolved THEN <<"DONE", ToLower(webrcaStatus)>> ELSE <<"TODO", "open">>

getComponentFromProducts(products) ==
  IF \E i \in 1..Len(products) : products[i] = "konflux" THEN "konflux"
  ELSE IF Len(products) > 0 THEN products[1]
  ELSE "unknown"

\* isKonfluxIncident of the integration.
isKonfluxIncident(incident) ==
  \E i \in 1..Len(incident.products) : incident.products[i] = "konflux"

\* The DevLakeIssue SendIncidentEvent builds.
DevLakeIssue(incidentID, incident) ==
  LET webrcaStatus == incident.status
      isResolved == ToLower(webrcaStatus) = "resolved" \/ ToLower(webrcaStatus) = "closed"
      mapped == mapToDevLakeStatus(webrcaStatus, isResolved)
  IN  [issueKey |-> incidentID,
       type |-> "INCIDENT",
       status |-> mapped[1],
       originalStatus |-> mapped[2],
       resolutionDate |->
         IF ~isResolved THEN ""
         ELSE IF incident.resolvedAt # 0 THEN FormatDevLakeDate(incident.resolvedAt)
         ELSE IF incident.updatedAt # 0 THEN FormatDevLakeDate(incident.updatedAt)
         ELSE "",
       component |-> getComponentFromProducts(incident.products)]

\* SendIncidentEventToDevLake and SendIncidentEvent: the requests made and
\* the error returned.
SendIncidentEvent(d, incidentID, incident, accepted) ==
  IF ~d.enabled THEN [requests |-> << >>, err |-> "devlake integration is disabled"]
  ELSE IF ~isKonfluxIncident(incident) THEN [requests |-> << >>, err |-> "nil"]
  ELSE IF ~d.token THEN [requests |-> << >>, err |-> "failed to get DevLake token"]
  ELSE [requests |-> <<[endpoint |-> "issues", project |-> d.projectID,
                        payload |-> DevLakeIssue(incidentID, incident),
                        accepted |-> accepted]>>,
        err |-> IF accepted THEN "nil" ELSE "DevLake API returned error"]

\* CloseIncidentInDevLake and CloseIncident.
CloseIncident(d, incidentID, accepted) ==
  IF ~d.enabled THEN [requests |-> << >>, err |-> "devlake integration is disabled"]
  ELSE IF ~d.token THEN [requests |-> << >>, err |-> "failed to get DevLake token"]
  ELSE [requests |-> <<[endpoint |-> "issue/close", project |-> d.projectID,
                        payload |-> incidentID, accepted |-> accepted]>>,
        err |-> IF accepted THEN "nil" ELSE "DevLake close API returned error"]

\* processIncident sending every incident it is given.
processIncidentAlways(d, prevState, incidentID, incident, accepted) ==
  LET sent == SendIncidentEvent(d, incidentID, incident, accepted[1])
  IN  [requests |-> sent.requests,
       calls |-> <<[op |-> "SendIncidentEvent", incident |-> incidentID, err |-> sent.err]>>,
       state |-> [exists |-> TRUE, status |-> incident.status, processed |-> TRUE]]

\* processIncident: the requests made, the calls of the integration, and
\* the state stored for the incident; accepted is whether DevLake accepts
\* the issue and the close.
processIncident(d, prevState, incidentID, incident, accepted) ==
  LET exists == prevState.exists
      isNew == ~exists \/ ~prevState.processed
      isStatusChange == exists /\ prevState.status # incident.status
      isResolved == IsResolved(incident)
      shouldSend == isNew \/ isStatusChange
      sent == IF shouldSend THEN SendIncidentEvent(d, incidentID, incident, accepted[1])
              ELSE [requests |-> << >>, err |-> "nil"]
      shouldClose == isResolved /\ exists /\ prevState.status # incident.status
      closing == IF shouldClose THEN CloseIncident(d, incidentID, accepted[2])
                 ELSE [requests |-> << >>, err |-> "nil"]
  IN  [requests |-> sent.requests \o closing.requests,
       calls |-> (IF shouldSend
                  THEN <<[op |-> "SendIncidentEvent", incident |-> incidentID, err |-> sent.err]>>
                  ELSE << >>)
                 \o (IF shouldClose
                     THEN <<[op |-> "CloseIncident", incident |-> incidentID, err |-> closing.err]>>
                     ELSE << >>),
       state |-> [exists |-> TRUE, status |-> incident.status, processed |-> TRUE]]

\* The loop of Check over the incidents from position i on.
RECURSIVE checkIncidents(_, _, _, _, _, _)
checkIncidents(d, states, listed, accepted, i, done) ==
  IF i > Len(IncidentOrder) THEN done
  ELSE LET id == IncidentOrder[i]
       IN  IF listed[id] = NoIncident \/ ~IsKonfluxIncident(listed[id])
           THEN checkIncidents(d, states, listed, accepted, i + 1, done)
           ELSE LET r == processIncident(d, states[id], id, listed[id], accepted)
                IN  checkIncidents(d, states, listed, accepted, i + 1,
                      [requests |-> done.requests \o r.requests,
                       calls |-> done.calls \o r.calls,
                       states |-> [done.states EXCEPT ![id] = r.state]])

\* A registered integration without teams, no incident listed or seen.
InitIncidents ==
  /\ NewArgoCDWatcher
  /\ integration \in {d \in Integrations : d.teams = << >>}
  /\ call = NoCall
  /\ requests = << >>
  /\ incidentState = [i \in IncidentIDs |-> NoIncidentState]
  /\ feed = [i \in IncidentIDs |-> NoIncident]
  /\ now = 1
  /\ redisUp = TRUE
  /\ processed = {}
  /\ devlake = {}
  /\ records = [k \in RecordKeys |-> NoRecord]
  /\ posts = EmptyBag
  /\ pc = [w \in Workers |-> "idle"]
  /\ app = [w \in Workers |-> NoApp]
  /\ appInfo = [w \in Workers |-> NoApp]
  /\ commitHistory = [w \in Workers |-> << >>]
  /\ idx = [w \in Workers |-> 0]
  /\ devlakeCommits = [w \in Workers |-> << >>]
  /\ arrival = [w \in Workers |-> NoArrival]

\* WebRCA opens an incident or changes it.
WebRCAUpdates(id, incident) ==
  /\ feed[id] # incident
  /\ feed' = [feed EXCEPT ![id] = incident]
  /\ UNCHANGED <<integration, call, requests, incidentState>>
  /\ UNCHANGED <<handlers, pc, watcher>>

\* Check, one poll: when GetAllIncidents fails the poll ends with the
\* error; otherwise every Konflux incident listed is processed.  before
\* and listed are what the poll found stored and listed.
Check(fetched, accepted) ==
  /\ call.op = "Check" => call.poll < MaxPolls
  /\ LET poll == IF call.op = "Check" THEN call.poll + 1 ELSE 1
         done == checkIncidents(integration, incidentState, feed, accepted, 1,
                   [requests |-> << >>, calls |-> << >>, states |-> incidentState])
     IN  IF ~fetched
         THEN /\ call' = [op |-> "Check", poll |-> poll, err |-> "failed to fetch incidents",
                          before |-> incidentState, listed |-> feed, calls |-> << >>]
              /\ requests' = << >>
              /\ incidentState' = incidentState
         ELSE /\ call' = [op |-> "Check", poll |-> poll, err |-> "nil",
                          before |-> incidentState, listed |-> feed, calls |-> done.calls]
              /\ requests' = done.requests
              /\ incidentState' = done.states
  /\ UNCHANGED <<integration, feed>>
  /\ UNCHANGED <<handlers, pc, watcher>>

NextIncidents ==
  \/ \E id \in IncidentIDs, incident \in Incidents : WebRCAUpdates(id, incident)
  \/ \E fetched \in BOOLEAN, accepted \in [1..2 -> BOOLEAN] : Check(fetched, accepted)

SpecIncidents == InitIncidents /\ [][NextIncidents]_vars

\* --------------------------------------------- commitHelper, any URL text

MaxTail == 3

\* The handlers at rest: nothing processed, stored or posted, every worker
\* idle.
IdleHandlers ==
  /\ now = 1
  /\ redisUp = TRUE
  /\ processed = {}
  /\ devlake = {}
  /\ records = [k \in RecordKeys |-> NoRecord]
  /\ posts = EmptyBag
  /\ pc = [w \in Workers |-> "idle"]
  /\ app = [w \in Workers |-> NoApp]
  /\ appInfo = [w \in Workers |-> NoApp]
  /\ commitHistory = [w \in Workers |-> << >>]
  /\ idx = [w \in Workers |-> 0]
  /\ devlakeCommits = [w \in Workers |-> << >>]
  /\ arrival = [w \in Workers |-> NoArrival]

\* Repository URLs followed by up to MaxTail ".git" and "/".
URLTexts ==
  [scheme : {"https", "http"}, upper : BOOLEAN, repo : Repos,
   tail : SeqsUpTo({".git", "/"}, MaxTail)]

InitNormalize ==
  /\ NewArgoCDWatcher
  /\ QuietDownstream
  /\ IdleHandlers

\* normalizeRepoURL is applied to a URL, and to its own result.
Normalize(repoURL) ==
  /\ call' = [op |-> "normalizeRepoURL", repoURL |-> repoURL,
              normalized |-> normalizeRepoURL(repoURL),
              again |-> normalizeRepoURL(normalizeRepoURL(repoURL))]
  /\ UNCHANGED <<integration, requests, incidentState, feed>>
  /\ UNCHANGED <<handlers, pc, watcher>>

NextNormalize == \E repoURL \in URLTexts \cup {NoURL} : Normalize(repoURL)

SpecNormalize == InitNormalize /\ [][NextNormalize]_vars

\* ------------------------------------ parser/formatter.go, any commit list

MaxCommits == 2

\* The commits a caller can hand to the formatter: GetCommitHistoryBetween
\* leaves CreatedAt zero when the code host has neither an author date nor a
\* committer date.
CommitInfos ==
  [sha : {"t15", "t2"}, message : {<<"message">>},
   repoURL : {NoURL, InfraDeploymentsURL}, createdAt : {0, 1}]

InitFormatter ==
  /\ NewArgoCDWatcher
  /\ QuietDownstream
  /\ now = 1
  /\ redisUp = TRUE
  /\ processed = {}
  /\ devlake \in SUBSET {<<"t2", "ui">>}
  /\ records = [k \in RecordKeys |-> NoRecord]
  /\ posts = EmptyBag
  /\ pc = [w \in Workers |-> "idle"]
  /\ app = [w \in Workers |-> NoApp]
  /\ appInfo = [w \in Workers |-> NoApp]
  /\ commitHistory = [w \in Workers |-> << >>]
  /\ idx = [w \in Workers |-> 0]
  /\ devlakeCommits = [w \in Workers |-> << >>]
  /\ arrival = [w \in Workers |-> NoArrival]

\* createDevLakeCommits on a commit list for component ui: the entries
\* built are kept with the list, and the commits are marked in the store.
FormatCommits(commits) ==
  /\ LET made == createDevLakeCommits(commits, now, InfraDeploymentsURL, "ui", << >>, devlake)
     IN  /\ call' = [op |-> "createDevLakeCommits", commits |-> commits,
                     deploymentCommits |-> made.commits]
         /\ devlake' = made.keys
  /\ UNCHANGED <<integration, requests, incidentState, feed>>
  /\ UNCHANGED <<now, redisUp, processed, records, posts, locals, pc, watcher>>

NextFormatter == \E commits \in SeqsUpTo(CommitInfos, MaxCommits) : FormatCommits(commits)

SpecFormatter == InitFormatter /\ [][NextFormatter]_vars

\* --------------------------------- processIncident, call by call, with i.mu

\* A registered integration without teams, nothing stored, the mutex free.
InitIncidentMutex ==
  /\ NewArgoCDWatcher
  /\ IdleHandlers
  /\ integration \in {d \in Integrations : d.teams = << >>}
  /\ requests = << >>
  /\ incidentState = [i \in IncidentIDs |-> NoIncidentState]
  /\ feed = [i \in IncidentIDs |-> NoIncident]
  /\ call = [op |-> "processIncident", mu |-> FALSE, at |-> "idle",
             incident |-> "", due |-> << >>, inFlight |-> "none"]

\* i.mu.Lock() with its deferred Unlock, and the calls of the integration
\* the incident is due: the issue when it is new or its status changed, the
\* close when it is resolved and its status changed.
processIncidentLock(id, incident) ==
  /\ call.at = "idle"
  /\ IsKonfluxIncident(incident)
  /\ LET prevState == incidentState[id]
         isNew == ~prevState.exists \/ ~prevState.processed
         isStatusChange == prevState.exists /\ prevState.status # incident.status
         shouldClose == IsResolved(incident) /\ isStatusChange
     IN  call' = [call EXCEPT
           !.mu = TRUE, !.at = "locked", !.incident = id,
           !.due = (IF isNew \/ isStatusChange THEN <<"SendIncidentEvent">> ELSE << >>)
                    \o (IF shouldClose THEN <<"CloseIncident">> ELSE << >>)]
  /\ feed' = [feed EXCEPT ![id] = incident]
  /\ UNCHANGED <<integration, requests, incidentState>>
  /\ UNCHANGED <<handlers, pc, watcher>>

\* The requests of the call of the integration that is due next.
RequestsOfCall(op, accepted) ==
  IF op = "SendIncidentEvent"
  THEN SendIncidentEvent(integration, call.incident, feed[call.incident], accepted).requests
  ELSE CloseIncident(integration, call.incident, accepted).requests

\* The next call of the integration begins: its HTTP request is sent, or
\* the call returns at once without one (integration disabled, no token).
fanOutCall ==
  /\ call.at = "locked"
  /\ call.due # << >>
  /\ call' = IF RequestsOfCall(Head(call.due), TRUE) = << >>
             THEN [call EXCEPT !.due = Tail(call.due)]
             ELSE [call EXCEPT !.at = "inFlight", !.inFlight = Head(call.due)]
  /\ UNCHANGED <<integration, requests, incidentState, feed>>
  /\ UNCHANGED <<handlers, pc, watcher>>

\* DevLake answers the request; an error is logged.
fanOutReturns(accepted) ==
  /\ call.at = "inFlight"
  /\ requests' = RequestsOfCall(call.inFlight, accepted)
  /\ call' = [call EXCEPT !.at = "locked", !.inFlight = "none", !.due = Tail(call.due)]
  /\ UNCHANGED <<integration, incidentState, feed>>
  /\ UNCHANGED <<handlers, pc, watcher>>

\* The state of the incident is stored and the deferred Unlock runs.
processIncidentUnlock ==
  /\ call.at = "locked"
  /\ call.due = << >>
  /\ incidentState' = [incidentState EXCEPT ![call.incident] =
       [exists |-> TRUE, status |-> feed[call.incident].status, processed |-> TRUE]]
  /\ call' = [call EXCEPT !.mu = FALSE, !.at = "idle"]
  /\ UNCHANGED <<integration, requests, feed>>
  /\ UNCHANGED <<handlers, pc, watcher>>

NextIncidentMutex ==
  \/ \E id \in IncidentIDs, incident \in Incidents : processIncidentLock(id, incident)
  \/ fanOutCall
  \/ \E accepted \in BOOLEAN : fanOutReturns(accepted)
  \/ processIncidentUnlock

SpecIncidentMutex == InitIncidentMutex /\ [][NextIncidentMutex]_vars

\* ------------------------------------------- webrca client, fetchAllPages

DefaultPageSize == 100

MaxPages == 3

\* The items the API returns for a page: n items, told apart by page and place.
PageItems(page, n) == [k \in 1..n |-> [page |-> page, item |-> k]]

\* What one page request can come back with: a failure (transport error,
\* status other than 200, unparsable body, cancelled context) or a list of
\* at most size items.
PageReplies(page) ==
  {[ok |-> FALSE, items |-> << >>]} \cup
  {[ok |-> TRUE, items |-> PageItems(page, n)] : n \in 0..DefaultPageSize}

InitPages == NewArgoCDWatcher /\ QuietDownstream /\ IdleHandlers

\* GetAllIncidents up to the loop of fetchAllPages: without a token it fails
\* before any page is requested.
GetAllIncidents(tokenOk) ==
  /\ IF call.op = "GetAllIncidents" THEN call.done ELSE TRUE
  /\ call' = [op |-> "GetAllIncidents", done |-> ~tokenOk, err |-> ~tokenOk,
              page |-> 1, asked |-> << >>, replies |-> << >>,
              allIncidents |-> << >>]
  /\ UNCHANGED <<integration, requests, incidentState, feed>>
  /\ UNCHANGED <<handlers, pc, watcher>>

\* fetchAllPages keeping the pages it has when a page request fails.
fetchAllPagesKeepingPages(c, reply) ==
  LET asked == Append(c.asked, [page |-> c.page, size |-> DefaultPageSize])
      replies == Append(c.replies, reply)
  IN  IF ~reply.ok
      THEN [c EXCEPT !.done = TRUE, !.err = TRUE, !.asked = asked,
                     !.replies = replies]
      ELSE [c EXCEPT !.asked = asked, !.replies = replies,
                     !.allIncidents = c.allIncidents \o reply.items,
                     !.done = Len(reply.items) < DefaultPageSize,
                     !.page = IF Len(reply.items) < DefaultPageSize
                              THEN c.page ELSE c.page + 1]

\* One turn of the loop of fetchAllPages: request the page, fail with nothing
\* on an error, else append its items and stop on a short page.
fetchAllPages(c, reply) ==
  LET asked == Append(c.asked, [page |-> c.page, size |-> DefaultPageSize])
      replies == Append(c.replies, reply)
  IN  IF ~reply.ok
      THEN [c EXCEPT !.done = TRUE, !.err = TRUE, !.asked = asked,
                     !.replies = replies, !.allIncidents = << >>]
      ELSE [c EXCEPT !.asked = asked, !.replies = replies,
                     !.allIncidents = c.allIncidents \o reply.items,
                     !.done = Len(reply.items) < DefaultPageSize,
                     !.page = IF Len(reply.items) < DefaultPageSize
                              THEN c.page ELSE c.page + 1]

fetchPage(reply) ==
  /\ call.op = "GetAllIncidents"
  /\ ~call.done
  /\ call.page <= MaxPages
  /\ call' = fetchAllPages(call, reply)
  /\ UNCHANGED <<integration, requests, incidentState, feed>>
  /\ UNCHANGED <<handlers, pc, watcher>>

NextPages ==
  \/ \E tokenOk \in BOOLEAN : GetAllIncidents(tokenOk)
  \/ \E reply \in PageReplies(IF call.op = "GetAllIncidents" THEN call.page ELSE 1) :
       fetchPage(reply)

SpecPages == InitPages /\ [][NextPages]_vars

\* ------------------------------------------ webrca client, getAccessToken

\* The clock counts in units of TokenRefreshBuffer (60 s).
TokenRefreshBuffer == 1

\* expires_in of a token response, in the same units: a token that lives no
\* longer than the buffer, and longer-lived ones.
ExpiresIns == {1, 2, 3}

\* The goroutines that call getAccessToken, once each.
TokenCallers == {"g1", "g2"}

\* What the token endpoint answers: an error (transport, status, decoding,
\* empty token) or a token response.
TokenReplies ==
  {[ok |-> FALSE, expiresIn |-> 0]} \cup [ok : {TRUE}, expiresIn : ExpiresIns]

\* accessToken is 0 for "", else the number of the request that returned it.
isTokenValid(c, t) == c.accessToken # 0 /\ t < c.tokenExpiry

\* A client as NewClient returns it: no token cached, the mutex free.
InitToken ==
  /\ NewArgoCDWatcher
  /\ IdleHandlers
  /\ integration = [enabled |-> TRUE, token |-> TRUE,
                    projectID |-> GlobalProject, teams |-> << >>]
  /\ requests = << >>
  /\ incidentState = [i \in IncidentIDs |-> NoIncidentState]
  /\ feed = [i \in IncidentIDs |-> NoIncident]
  /\ call = [op |-> "getAccessToken", accessToken |-> 0, tokenExpiry |-> 0,
             readers |-> {}, writer |-> "none", together |-> FALSE,
             at |-> [g \in TokenCallers |-> "idle"],
             invalid |-> [g \in TokenCallers |-> FALSE],
             got |-> [g \in TokenCallers |-> [token |-> 0, err |-> FALSE]]]

TokenStep(c) ==
  /\ call' = c
  /\ UNCHANGED <<integration, incidentState, feed>>
  /\ UNCHANGED <<handlers, pc, watcher>>

\* A goroutine enters getAccessToken: whether the cached token is invalid
\* at that instant, and whether another goroutine is inside.
getAccessToken(g) ==
  /\ call.at[g] = "idle"
  /\ requests' = requests
  /\ TokenStep([call EXCEPT
       !.at[g] = "fast",
       !.invalid[g] = ~isTokenValid(call, now),
       !.together = call.together
                      \/ \E h \in TokenCallers \ {g} : call.at[h] \notin {"idle", "returned"}])

\* c.mu.RLock()
RLock(g) ==
  /\ call.at[g] = "fast"
  /\ call.writer = "none"
  /\ requests' = requests
  /\ TokenStep([call EXCEPT !.at[g] = "rlocked", !.readers = call.readers \cup {g}])

\* The fast path: the cached token when it is valid, then c.mu.RUnlock().
fastPath(g) ==
  /\ call.at[g] = "rlocked"
  /\ requests' = requests
  /\ TokenStep(
       IF isTokenValid(call, now)
       THEN [call EXCEPT !.at[g] = "returned", !.readers = call.readers \ {g},
                         !.got[g] = [token |-> call.accessToken, err |-> FALSE]]
       ELSE [call EXCEPT !.at[g] = "slow", !.readers = call.readers \ {g}])

\* c.mu.Lock()
Lock(g) ==
  /\ call.at[g] = "slow"
  /\ call.writer = "none"
  /\ call.readers = {}
  /\ requests' = requests
  /\ TokenStep([call EXCEPT !.at[g] = "locked", !.writer = g])

\* The second check left out: a new token is asked for in any case.
doubleCheckSkipped(c, t) == FALSE

\* The check after acquiring the write lock: the cached token is returned.
doubleCheck(c, t) == isTokenValid(c, t)

\* The slow path under the write lock, up to the request of requestNewToken.
refreshToken(g) ==
  /\ call.at[g] = "locked"
  /\ IF doubleCheck(call, now)
     THEN /\ requests' = requests
          /\ TokenStep([call EXCEPT !.at[g] = "returned", !.writer = "none",
                          !.got[g] = [token |-> call.accessToken, err |-> FALSE]])
     ELSE /\ requests' = Append(requests,
                           [endpoint |-> "token", by |-> g, at |-> now,
                            accessToken |-> call.accessToken,
                            tokenExpiry |-> call.tokenExpiry,
                            reply |-> "none"])
          /\ TokenStep([call EXCEPT !.at[g] = "requesting"])

\* cacheToken: the token and time.Now() + expires_in - TokenRefreshBuffer.
cacheToken(c, token, expiresIn, t) ==
  [c EXCEPT !.accessToken = token,
            !.tokenExpiry = t + expiresIn - TokenRefreshBuffer]

\* requestNewToken returns: an error goes to the caller and the cache is
\* left as it is; a token is cached and returned.  The lock is released.
requestNewToken(g, reply) ==
  /\ call.at[g] = "requesting"
  /\ requests' = [requests EXCEPT ![Len(requests)].reply =
                    IF reply.ok THEN "token" ELSE "error"]
  /\ TokenStep(
       IF ~reply.ok
       THEN [call EXCEPT !.at[g] = "returned", !.writer = "none",
                         !.got[g] = [token |-> 0, err |-> TRUE]]
       ELSE [cacheToken(call, Len(requests), reply.expiresIn, now) EXCEPT
                         !.at[g] = "returned", !.writer = "none",
                         !.got[g] = [token |-> Len(requests), err |-> FALSE]])

NextToken ==
  \/ \E g \in TokenCallers :
       \/ getAccessToken(g)
       \/ RLock(g)
       \/ fastPath(g)
       \/ Lock(g)
       \/ refreshToken(g)
       \/ \E reply \in TokenReplies : requestNewToken(g, reply)
  \/ Tick

SpecToken == InitToken /\ [][NextToken]_vars

\* ------------------------------------------- redis.go, IsNewDeployment

\* IsNewDeployment: the error of GetDeployment is returned with false (a
\* missing key is the error "deployment not found"); otherwise whether the
\* stored revision differs.
IsNewDeployment(appName, clusterName, revision) ==
  LET existing == GetDeployment(appName, clusterName)
  IN  IF existing.err THEN [isNew |-> FALSE, err |-> TRUE]
      ELSE IF existing.record = NoRecord THEN [isNew |-> TRUE, err |-> FALSE]
      ELSE [isNew |-> existing.record.revision # revision, err |-> FALSE]

InitNewDeployment == NewArgoCDWatcher /\ QuietDownstream /\ IdleHandlers

\* A deployment of the revision is recorded under the name.
RecordDeployment(appName, clusterName, revision) ==
  /\ records' = StoreDeployment([PreviousRecord EXCEPT !.applicationName = appName,
                                                       !.clusterName = clusterName,
                                                       !.revision = revision])
  /\ UNCHANGED <<now, redisUp, processed, devlake, posts, locals, pc>>
  /\ UNCHANGED <<watcher, downstream>>

\* A caller asks whether the deployment is new.
AskIsNewDeployment(appName, clusterName, revision) ==
  /\ LET answer == IsNewDeployment(appName, clusterName, revision)
     IN  call' = [op |-> "IsNewDeployment", appName |-> appName,
                  clusterName |-> clusterName, revision |-> revision,
                  stored |-> records[<<appName, clusterName>>],
                  isNew |-> answer.isNew, err |-> answer.err]
  /\ UNCHANGED <<integration, requests, incidentState, feed>>
  /\ UNCHANGED <<handlers, pc, watcher>>

NextNewDeployment ==
  \E k \in RecordKeys, revision \in HistoryRevs \cup LaterRevs :
    \/ RecordDeployment(k[1], k[2], revision)
    \/ AskIsNewDeployment(k[1], k[2], revision)

SpecNewDeployment == InitNewDeployment /\ [][NextNewDeployment]_vars

\* -------------------------------------------------------------- properties

\* The processed marker of the deployment worker w is handling.
MarkerOf(w) == <<appInfo[w].revision, app[w].name, appInfo[w].cluster>>

\* Where a handler stands while it builds the commit history, builds the
\* payload, fans out and stores the record.
Processing == {"history", "format", "formatMark", "send", "store"}

\* Two fan-out calls of the same (application, cluster, revision,
\* deployedAt); the cluster is a part of the application name.
SameDeployment(p, q) ==
  /\ p.app.name = q.app.name
  /\ p.deployment.id = q.deployment.id
  /\ p.app.deployedTimestamp = q.app.deployedTimestamp

\* A fan-out call was made in this step, by a worker at its send.
CallMade ==
  \E w \in Workers :
    /\ pc[w] = "send"
    /\ pc'[w] = "store"
    /\ BagCardinality(posts') = BagCardinality(posts) + 1

\* C1, as claimed: with the store available, the fan-out is called at most
\* once for every (application, cluster, revision, deployedAt), two workers
\* handling the same event at once included.
C1_FanOutAtMostOnce ==
  \A p \in BagToSet(posts) : \A q \in BagToSet(posts) :
    SameDeployment(p, q) => (p = q /\ CopiesIn(p, posts) = 1)

\* C2, as claimed: at any time at most one worker is processing (building
\* the commit history, fanning out, storing the record of) a given
\* (applicationName, cluster, syncRevision).
C2_OneWorkerPerDeployment ==
  \A v \in Workers : \A w \in Workers \ {v} :
    (pc[v] \in Processing /\ pc[w] \in Processing) => MarkerOf(v) # MarkerOf(w)

\* C3, as claimed: once revision R is emitted and recorded for an
\* (application, cluster), a later Modified event for R whose history
\* deployedAt for R is later than the stored record's deployedAt is emitted
\* again: its handler does not return at the processed marker.
C3_FreshRedeployEmitted ==
  \A w \in Workers :
    pc[w] = "alreadyProcessed" =>
      LET record == records[<<app[w].name, appInfo[w].cluster>>]
      IN  ~(/\ ~isFailedDeployment(app[w])
            /\ \E p \in arrival[w].calls : p.ok
            /\ record # NoRecord
            /\ record.revision = app[w].revision
            /\ app[w].deployedTimestamp > record.deployedAt)

\* C4, as claimed: a Modified event that is not both healthy (Healthy or
\* Unknown) and synced (Synced or Unknown), the OutOfSync+Missing failed
\* deployment aside, never leads to a fan-out call.
C4_OnlyHealthySyncedEmitted ==
  \A p \in BagToSet(posts) :
    isFailedDeployment(p.app) \/ (isHealthy(p.app) /\ isSynced(p.app))

\* C5, as claimed: no deployment is emitted for an event whose sync revision
\* is the revision of no history entry, on the failed-deployment path too.
C5_RevisionInHistoryEmitted ==
  \A p \in BagToSet(posts) : p.app.inHistory

\* C6, as claimed: a healthy, synced Modified event whose non-empty sync
\* revision is the revision of some history entry, the last one or not, is
\* not skipped at the history check.
C6_AnyHistoryEntryPasses ==
  \A w \in Workers :
    pc[w] = "skipped" =>
      ~(/\ isHealthy(app[w])
        /\ isSynced(app[w])
        /\ hasRevision(app[w].revision)
        /\ app[w].inHistory)

\* C7, as claimed: after a failed deployment of revision R has been
\* processed, the recovery event (Synced and Healthy, R deployed) is not
\* suppressed by the marker written for the failure.
C7_RecoveryNotSuppressed ==
  \A w \in Workers :
    pc[w] = "alreadyProcessed" =>
      ~(/\ isHealthy(app[w])
        /\ isSynced(app[w])
        /\ app[w].inHistory
        /\ \E p \in arrival[w].calls : p.ok /\ p.deployment.result = "FAILED")

\* A failed-deployment call for its deployment had been made, by a handler
\* that had returned, when worker w took its event.
AfterFailedDeployment(w) ==
  /\ isFailedDeployment(app[w])
  /\ arrival[w].marked
  /\ \E p \in arrival[w].calls : p.ok /\ p.deployment.result = "FAILED"

\* C8, as claimed: after a failed-deployment event has been processed, a
\* later identical failed event that arrives while the processed marker
\* exists makes no POST.
C8_NoPostWhileMarked ==
  \A w \in Workers : ~(pc[w] = "store" /\ AfterFailedDeployment(w))

\* C8, amended: a failed-deployment event whose lookup of the processed
\* marker succeeds and finds the marker is dropped there, and a dropped
\* event makes no POST: calls are made by handlers at their send only.
C8_MarkedFailureDropped ==
  [][/\ \A w \in Workers :
          /\ (/\ pc[w] = "check" /\ pc'[w] # "check"
              /\ isFailedDeployment(app[w])
              /\ MarkerOf(w) \in processed
              /\ redisUp)
             => pc'[w] = "alreadyProcessed"
          /\ pc[w] = "alreadyProcessed" => pc'[w] \in {"alreadyProcessed", "idle"}
     /\ posts' # posts => CallMade]_vars

\* C8, its case: a later identical failed event has been dropped at the
\* marker of a failed deployment that was emitted.
C8_Witness ==
  \E w \in Workers : pc[w] = "alreadyProcessed" /\ AfterFailedDeployment(w)

\* The payload of a failed deployment: FAILED, with at least one commit,
\* every commit FAILED and carrying the failure string.
IsFailedPayload(p) ==
  /\ p.deployment.result = "FAILED"
  /\ Len(p.deployment.deploymentCommits) >= 1
  /\ \A i \in 1..Len(p.deployment.deploymentCommits) :
       LET c == p.deployment.deploymentCommits[i]
       IN  /\ c.result = "FAILED"
           /\ c.commitMsg = failedMsg(p.app)
           /\ c.displayTitle = failedMsg(p.app)
           /\ c.name = failedMsg(p.app)

\* C9, as claimed: the handler of a failed-deployment event for a revision
\* not yet marked processed makes one fan-out call: past the marker it does
\* not return before its send.
C9_ExactlyOneEmission ==
  [][\A w \in Workers :
       (/\ pc[w] \in {"mark", "history", "format", "formatMark"}
        /\ isFailedDeployment(app[w])
        /\ ~arrival[w].marked)
       => pc'[w] # "idle"]_vars

\* C9, amended: a failed-deployment event makes at most one fan-out call
\* (a handler sends once, then stores and returns), and a call it makes has
\* result FAILED with every commit FAILED and its message, displayTitle and
\* name replaced by the failure string.
C9_FailedEmission ==
  [][/\ \A p \in BagToSet(posts') : isFailedDeployment(p.app) => IsFailedPayload(p)
     /\ posts' # posts => CallMade
     /\ \A w \in Workers : pc[w] = "store" => pc'[w] \in {"store", "idle"}]_vars

\* C9, its case: a failed-deployment event for a revision not marked before
\* has made its call.
C9_Witness ==
  \E w \in Workers :
    /\ pc[w] = "store"
    /\ isFailedDeployment(app[w])
    /\ ~arrival[w].marked
    /\ \E p \in BagToSet(posts) : p.app = app[w] /\ IsFailedPayload(p)

\* C10, as claimed: after a failed fan-out of a deployment, no later event
\* for the same (application, cluster, revision) makes another fan-out call.
C10_NoCallAfterFailedFanOut ==
  \A w \in Workers :
    ~(pc[w] = "store" /\ \E p \in arrival[w].calls : ~p.ok)

\* C10, amended: whatever the outcome of the fan-out call, the handler goes
\* on to store the record, which is stored when Redis accepts the write;
\* no marker is removed; and a later event for the deployment whose lookup
\* of the marker succeeds and finds it is dropped.
C10_FanOutFailureKeepsRecord ==
  [][/\ \A w \in Workers :
          /\ (pc[w] = "send" /\ pc'[w] # "send") => pc'[w] = "store"
          /\ (pc[w] = "store" /\ pc'[w] # "store" /\ redisUp)
             => /\ records'[<<app[w].name, appInfo[w].cluster>>] # NoRecord
                /\ records'[<<app[w].name, appInfo[w].cluster>>].revision = appInfo[w].revision
          /\ (/\ pc[w] = "check" /\ pc'[w] # "check"
              /\ MarkerOf(w) \in processed
              /\ redisUp)
             => pc'[w] = "alreadyProcessed"
     /\ processed \subseteq processed']_vars

\* C10, its case: the fan-out of a deployment failed, its record is stored,
\* its marker is in place and a later event for it has been dropped.
C10_Witness ==
  \E w \in Workers :
    /\ pc[w] = "alreadyProcessed"
    /\ MarkerOf(w) \in processed
    /\ \E p \in arrival[w].calls : ~p.ok
    /\ records[<<app[w].name, appInfo[w].cluster>>] # NoRecord
    /\ records[<<app[w].name, appInfo[w].cluster>>].revision = appInfo[w].revision

\* A fan-out call that succeeded and carries commit sha for the component.
Carries(p, sha, component) ==
  /\ p.ok
  /\ p.deployment.displayTitle.component = component
  /\ \E i \in 1..Len(p.deployment.deploymentCommits) :
       p.deployment.deploymentCommits[i].commitSha = sha

\* C11, as claimed: a commit is marked processed (the processed marker of
\* the deployment, the per-component key of the commit) only after the
\* fan-out call that carries it has succeeded; after a failed call it is
\* not marked.
C11_MarkedOnlyAfterSend ==
  \A p \in BagToSet(posts) :
    (\A q \in BagToSet(posts) :
       (q.app.name = p.app.name /\ q.deployment.id = p.deployment.id) => ~q.ok)
    => /\ <<p.deployment.id, p.app.name, parseApplicationName(p.app.name).cluster>>
            \notin processed
       /\ \A i \in 1..Len(p.deployment.deploymentCommits) :
            <<p.deployment.deploymentCommits[i].commitSha,
              p.deployment.displayTitle.component>> \notin devlake

\* C12, as claimed: when the commit history of a new deployment is empty
\* the handler makes no fan-out call and still writes the DeploymentRecord
\* with the new revision before it returns.
C12_EmptyHistoryStillRecorded ==
  [][\A w \in Workers :
       (/\ pc[w] = "history"
        /\ ~isFailedDeployment(app[w])
        /\ pc'[w] = "idle")
       => /\ posts' = posts
          /\ records'[<<app[w].name, appInfo[w].cluster>>] # NoRecord
          /\ records'[<<app[w].name, appInfo[w].cluster>>].revision = appInfo[w].revision]_vars

\* C13, as claimed: with the store available, a commit is carried by at
\* most one emitted payload for a component, two events formatted at once
\* included.
C13_CommitEmittedOncePerComponent ==
  \A sha \in CommitHashes : \A c \in Components :
    \A p \in BagToSet(posts) : \A q \in BagToSet(posts) :
      (Carries(p, sha, c) /\ Carries(q, sha, c))
      => (p = q /\ CopiesIn(p, posts) = 1)

\* C14, as claimed: the deployedAt of the payload and of the record is the
\* first non-zero deployedAt the history has for the sync revision; the
\* wall clock is used only when the history has none.
C14_DeployedAtFromHistory ==
  /\ \A p \in BagToSet(posts) :
       p.app.deployedTimestamp # 0
       => /\ p.deployment.createdDate = p.app.deployedTimestamp
          /\ p.deployment.finishedDate = p.app.deployedTimestamp
  /\ \A w \in Workers :
       (pc[w] = "store" /\ app[w].deployedTimestamp # 0)
       => (IF isFailedDeployment(app[w])
           THEN FailedDeploymentRecord(app[w], appInfo[w])
           ELSE DeploymentRecord(app[w], appInfo[w], commitHistory[w])).deployedAt
          = app[w].deployedTimestamp

\* C15, as claimed: no commit of an emitted payload has a repository URL
\* whose normalized form is the normalized form of an entry of the
\* configured repositoryBlacklist.
C15_NoBlacklistedRepoEmitted ==
  \A p \in BagToSet(posts) :
    \A i \in 1..Len(p.deployment.deploymentCommits) :
      \A j \in 1..Len(RepositoryBlacklist) :
        normalizeRepoURL(p.deployment.deploymentCommits[i].repoUrl)
          # normalizeRepoURL(RepositoryBlacklist[j])

\* C16, as claimed: when a previous DeploymentRecord exists and a valid
\* current image has the base of a previously deployed image and another
\* tag, the commits the code host lists for the range of the two tags are
\* in the commit list of the deployment.
C16_ChangedTagRangeAppended ==
  \A w \in Workers :
    (/\ pc[w] = "returned"
     /\ ~isFailedDeployment(app[w])
     /\ arrival[w].previous # NoRecord
     /\ appInfo[w].revision \in arrival[w].host.dated
     /\ arrival[w].host.repo["t2"] # NoURL
     /\ \E i \in 1..Len(ExtractValidImages(appInfo[w].images)) :
          \E j \in 1..Len(arrival[w].previous.images) :
            /\ getBaseImage(ExtractValidImages(appInfo[w].images)[i])
                 = getBaseImage(arrival[w].previous.images[j])
            /\ extractTagFromImage(ExtractValidImages(appInfo[w].images)[i])
                 # extractTagFromImage(arrival[w].previous.images[j]))
    => \A k \in 1..Len(arrival[w].host.between) :
         isCommitAlreadyAdded(commitHistory[w], arrival[w].host.between[k].sha)

\* C17, as claimed: when the code host has no authoring date for the commit
\* of the sync revision, the handler emits no deployment for the event,
\* whatever it resolves for the image tags.
C17_NoEmissionWithoutRevisionDate ==
  \A w \in Workers :
    (/\ pc[w] = "returned"
     /\ appInfo[w].revision \notin arrival[w].host.dated)
    => \A p \in BagToSet(posts) : p.app # app[w]

\* C18, as claimed: when the event channel is closed every worker and every
\* per-namespace watch goroutine has terminated, and no goroutine sends on
\* the closed event channel.
C18_ChannelClosedLast ==
  /\ "eventCh" \in closed =>
       /\ \A w \in Workers : pc[w] = "exited"
       /\ \A n \in Namespaces : watches[n].at = "exited"
  /\ \A n \in Namespaces : <<n, "send on closed channel">> \notin panics

\* C19, as claimed: a second call of Stop, after or during the first,
\* completes normally: no call of Stop panics.
C19_StopIdempotent ==
  \A s \in Callers : <<s, "close of closed channel">> \notin panics

\* C20, as claimed: a watch goroutine that holds an event while the event
\* channel is full neither blocks nor panics: it drops the event and goes
\* on with the next one (or returns, when the context or stopCh is done);
\* and the channel never holds more events than its capacity.
C20_FullChannelDrops ==
  [][/\ Len(eventCh') <= EventChCap
     /\ \A n \in Namespaces :
          (/\ watches[n].at = "sending"
           /\ Len(eventCh) = EventChCap
           /\ \/ watches'[n] # watches[n]
              \/ <<n, "send on closed channel">> \in panics' \ panics)
          => /\ <<n, "send on closed channel">> \notin panics'
             /\ eventCh' = eventCh
             /\ \/ watches'[n].at = "watching" /\ dropped' = dropped + 1
                \/ watches'[n].at = "retry" /\ (ctxDone \/ "stopCh" \in closed)]_vars


\* The watcher is started and neither stopped nor cancelled.
Serving == startErr = "nil" /\ ~ctxDone /\ closed = {}

\* C21: a panic of the event handler does not end the worker that ran it:
\* while the watcher is neither stopped nor cancelled every worker is alive,
\* at its select or in a handler, and the process runs.
C21_WorkersSurviveHandlerPanic ==
  Serving => /\ Running
             /\ \A w \in Workers : pc[w] \in {"idle", "handling"}

\* C22: Start called on a watcher without a clientset or without a
\* namespace returns an error.
C22_StartReportsSetupErrors ==
  (startErr # "notCalled" /\ (~client.argocd \/ client.namespaces = {}))
    => startErr = "error"

\* C23: a namespace is never left without a watch while the watcher is
\* neither stopped nor cancelled and the process runs: the goroutine that
\* watches it has not returned.
C23_NamespaceWatchedUntilShutdown ==
  \A n \in Namespaces :
    (Serving /\ Running /\ client.argocd /\ n \in client.namespaces /\ loop # "start")
      => watches[n].at # "exited"


\* The components a display title was written for.
CarriedComponents(displayTitle) == {c \in TeamComponents : displayTitle \in TitlesOf(c)}

\* The projects a payload is due to: the global project, then the project
\* of every configured team that lists the component of the payload.
DueProjects(deployment) ==
  LET cs == CarriedComponents(deployment.displayTitle)
      due(team) == team.argocdComponents \cap cs # {}
      teams == SelectSeq(integration.teams, due)
  IN  <<GlobalProject>> \o [i \in 1..Len(teams) |-> teams[i].projectID]

\* The last call made one POST per due project, each with the payload of
\* the call, and no other request.
OnePostPerDueProject ==
  LET due == DueProjects(call.deployment)
  IN  /\ Len(requests) = Len(due)
      /\ \A i \in 1..Len(requests) :
           /\ requests[i].endpoint = "deployments"
           /\ requests[i].project = due[i]
           /\ requests[i].payload = call.deployment

\* C24 as stated: every deployment fan-out makes exactly one POST to the
\* global project and one to each team that lists the component of the
\* payload, all with the payload, and no other.
C24_EveryFanOutPostsToDueProjects ==
  call.op = "SendDeploymentEvent" => OnePostPerDueProject

\* C24: a deployment fan-out of an enabled integration whose token is set
\* makes exactly one POST to the global project and one to each team that
\* lists the component of the payload, all with the payload, and no other.
C24_FanOutPostsToDueProjects ==
  (call.op = "SendDeploymentEvent" /\ integration.enabled /\ integration.token)
    => OnePostPerDueProject

\* A failed deployment of ui is fanned out with two teams configured, one
\* of them for ui: two requests, to the global project and to that team.
C24_Witness ==
  /\ call.op = "SendDeploymentEvent"
  /\ integration.enabled /\ integration.token
  /\ call.deployment.displayTitle = FailedDeploymentTitle("ui")
  /\ Len(integration.teams) = 2
  /\ Len(requests) = 2
  /\ requests[2].project = "2"


\* C25: a deployment fan-out goes on to the remaining targets after a
\* failed one (every target ends as an error or as a success), and it
\* returns without error exactly when DevLake accepted at least one POST.
C25_FanOutSucceedsIffOneAccepted ==
  call.op = "SendDeploymentEvent" =>
    /\ integration.enabled =>
         Len(call.errors) + call.successCount = Len(DueProjects(call.deployment))
    /\ requests # << >> => Len(requests) = Len(DueProjects(call.deployment))
    /\ call.err = "nil" <=> \E i \in 1..Len(requests) : requests[i].accepted

\* The POST to the global project is refused, the POST to the team that
\* follows is accepted, and the call returns no error.
C25_Witness ==
  /\ call.op = "SendDeploymentEvent"
  /\ Len(requests) = 2
  /\ ~requests[1].accepted
  /\ requests[2].accepted
  /\ call.err = "nil"


\* C26: ShouldMonitor is true exactly when the namespace of the application
\* is configured, its name ends with the suffix of a known cluster, and the
\* component before the suffix is not in componentsToIgnore.
C26_MonitoredUnlessIgnored ==
  call.op = "ShouldMonitor" =>
    (call.monitored <=>
       /\ call.app.namespace \in call.config.namespaces
       /\ \E i \in 1..Len(call.config.knownClusters) :
            /\ HasClusterSuffix(call.app.name, call.config.knownClusters[i])
            /\ \A c \in call.config.componentsToIgnore :
                 <<c>> # SubSeq(call.app.name, 1, Len(call.app.name) - 1))


\* The products of a listed incident.
ProductsOf(incident) == {incident.products[k] : k \in 1..Len(incident.products)}

\* The Konflux incidents the last poll listed.
PolledKonflux ==
  IF call.op = "Check" /\ call.err = "nil"
  THEN {i \in IncidentIDs :
          call.listed[i] # NoIncident /\ "konflux" \in ProductsOf(call.listed[i])}
  ELSE {}

\* The last poll called the integration with operation op for incident i.
FannedOut(op, i) ==
  \E k \in 1..Len(call.calls) : call.calls[k].op = op /\ call.calls[k].incident = i

\* The requests of the last poll that are about incident i.
RequestsAbout(i) ==
  {k \in 1..Len(requests) :
     \/ requests[k].endpoint = "issues" /\ requests[k].payload.issueKey = i
     \/ requests[k].endpoint = "issue/close" /\ requests[k].payload = i}

\* C27: a poll fans a Konflux incident out as an issue exactly when the
\* incident was not stored (or not processed) or its status differs from
\* the stored one; an incident listed with the stored status causes no
\* request.
C27_IssueOnlyWhenNewOrChanged ==
  \A i \in PolledKonflux :
    /\ FannedOut("SendIncidentEvent", i)
         <=> \/ ~call.before[i].exists
             \/ ~call.before[i].processed
             \/ call.before[i].status # call.listed[i].status
    /\ (call.before[i].exists /\ call.before[i].status = call.listed[i].status)
         => RequestsAbout(i) = {}

\* A later poll of a working integration lists the Konflux incident with
\* the status stored by an earlier poll and makes no request.
C27_Witness ==
  /\ integration.enabled /\ integration.token
  /\ call.op = "Check" /\ call.err = "nil" /\ call.poll >= 2
  /\ "ITN-1" \in PolledKonflux
  /\ call.before["ITN-1"].exists
  /\ call.before["ITN-1"].status = call.listed["ITN-1"].status
  /\ requests = << >>


\* The status reads resolved or closed, in any case of the letters.
ReadsResolved(status) == ToLower(status) \in {"resolved", "closed"}

\* C28: a poll of a working integration that lists as resolved or closed a
\* Konflux incident stored as open makes two requests: the issue with
\* status DONE and its resolution date, then the close of the issue.
C28_ResolvedIsClosedOnce ==
  \A i \in PolledKonflux :
    ( /\ integration.enabled /\ integration.token
      /\ call.before[i].exists
      /\ ~ReadsResolved(call.before[i].status)
      /\ ReadsResolved(call.listed[i].status)
      /\ (call.listed[i].resolvedAt # 0 \/ call.listed[i].updatedAt # 0) )
    => /\ Len(requests) = 2
       /\ requests[1].endpoint = "issues"
       /\ requests[1].payload.issueKey = i
       /\ requests[1].payload.status = "DONE"
       /\ requests[1].payload.resolutionDate # ""
       /\ requests[2].endpoint = "issue/close"
       /\ requests[2].payload = i

\* The incidents the last poll listed that are not Konflux incidents.
PolledOthers ==
  IF call.op = "Check" /\ call.err = "nil"
  THEN {i \in IncidentIDs :
          call.listed[i] # NoIncident /\ "konflux" \notin ProductsOf(call.listed[i])}
  ELSE {}

\* C29: a poll calls the integration for no incident whose products do not
\* contain "konflux", and makes no request about it.
C29_OnlyKonfluxFannedOut ==
  \A i \in PolledOthers :
    /\ ~FannedOut("SendIncidentEvent", i)
    /\ ~FannedOut("CloseIncident", i)
    /\ RequestsAbout(i) = {}

\* An incident stored as open while it was a Konflux incident is listed as
\* resolved without "konflux" among its products: no call, no request.
C29_Witness ==
  /\ integration.enabled /\ integration.token
  /\ "ITN-1" \in PolledOthers
  /\ call.before["ITN-1"].exists
  /\ call.before["ITN-1"].status = "open"
  /\ call.listed["ITN-1"].status = "resolved"
  /\ call.calls = << >>
  /\ requests = << >>

\* C30: in every issue sent, status is DONE exactly when the incident's raw
\* status is resolved or closed and TODO otherwise, and originalStatus is
\* the raw status in lower case.
C30_StatusAndOriginalStatus ==
  call.op = "Check" =>
    \A k \in 1..Len(requests) :
      requests[k].endpoint = "issues" =>
        LET raw == call.listed[requests[k].payload.issueKey].status
        IN  /\ requests[k].payload.status = (IF ReadsResolved(raw) THEN "DONE" ELSE "TODO")
            /\ requests[k].payload.originalStatus = ToLower(raw)


\* C31: normalizing a normalized repository URL changes nothing.
C31_NormalizeIdempotent ==
  call.op = "normalizeRepoURL" => call.again = call.normalized


\* C32: every commit the formatter puts in a payload has a creation date.
C32_EmittedCommitsAreDated ==
  call.op = "createDevLakeCommits" =>
    \A k \in 1..Len(call.deploymentCommits) :
      call.deploymentCommits[k].startedDate # 0

\* The formatter was given a commit without creation date before a dated
\* one, and its entries are the dated commit alone.
C32_Witness ==
  /\ call.op = "createDevLakeCommits"
  /\ Len(call.commits) = 2
  /\ call.commits[1].createdAt = 0
  /\ Len(call.deploymentCommits) = 1
  /\ call.deploymentCommits[1].commitSha = call.commits[2].sha


\* The items of the replies, in the order of the replies.
RECURSIVE Concatenation(_)
Concatenation(replies) ==
  IF replies = << >> THEN << >>
  ELSE replies[1].items \o Concatenation(Tail(replies))

\* C33: GetAllIncidents asks for pages 1, 2, ... of DefaultPageSize items in
\* order and for no page after a short or failed one; it returns the pages it
\* got in page order, and an error with no incident when a request failed.
C33_PagesInOrderUntilShort ==
  call.op = "GetAllIncidents" =>
    /\ \A k \in 1..Len(call.asked) :
         call.asked[k] = [page |-> k, size |-> DefaultPageSize]
    /\ \A k \in 1..(Len(call.replies) - 1) :
         call.replies[k].ok /\ Len(call.replies[k].items) >= DefaultPageSize
    /\ Len(call.replies) = Len(call.asked)
    /\ (call.done /\ ~call.err) =>
         /\ call.replies # << >>
         /\ Len(call.replies[Len(call.replies)].items) < DefaultPageSize
         /\ call.allIncidents = Concatenation(call.replies)
    /\ call.err =>
         /\ call.done
         /\ call.allIncidents = << >>
         /\ call.replies # << >> => ~call.replies[Len(call.replies)].ok
    /\ (~call.done /\ call.replies # << >>) =>
         Len(call.replies[Len(call.replies)].items) >= DefaultPageSize

\* A full page and a page of two items: 102 incidents after two requests.
C33_Witness ==
  /\ call.op = "GetAllIncidents"
  /\ call.done
  /\ ~call.err
  /\ Len(call.asked) = 2
  /\ Len(call.replies[2].items) = 2
  /\ Len(call.allIncidents) = DefaultPageSize + 2
  /\ call.allIncidents[DefaultPageSize + 1] = [page |-> 2, item |-> 1]


\* C34, as claimed: the record the commit processor reads as the previous
\* deployment of an application on a cluster is the record StoreDeployment
\* last wrote for that application and cluster.
C34_ReadsTheStoredRecord ==
  \A w \in Workers :
    pc[w] = "returned" /\ "read" \in DOMAIN arrival[w]
      => arrival[w].read = arrival[w].previous


\* C35, as claimed: when the handlers of two events of an application with
\* different revisions run together, the record of a more recently
\* deployed revision is never overwritten by that of an older one.
C35_OlderNeverOverwritesNewer ==
  [][\A k \in RecordKeys :
       (/\ records[k] # NoRecord
        /\ records'[k] # NoRecord
        /\ records'[k].revision # records[k].revision)
       => records'[k].deployedAt >= records[k].deployedAt]_vars


\* C36, as claimed: an incident whose send to the integration failed in a
\* poll is not recorded as processed by that poll, so that the next poll
\* sends it again.
C36_ProcessedOnlyWhenSent ==
  \A i \in PolledKonflux :
    (\E k \in 1..Len(call.calls) :
       /\ call.calls[k].op = "SendIncidentEvent"
       /\ call.calls[k].incident = i
       /\ call.calls[k].err # "nil")
    => ~(incidentState[i].exists /\ incidentState[i].processed)


\* C37, as claimed: when the callers of getAccessToken are inside it
\* together and each found no valid token cached when it entered, one
\* request goes to the token endpoint and every caller has the token it
\* returned.
C37_OneRequestForAllCallers ==
  (/\ call.op = "getAccessToken"
   /\ call.together
   /\ \A g \in TokenCallers : call.invalid[g] /\ call.at[g] = "returned")
  => /\ Len(requests) = 1
     /\ \A g \in TokenCallers : call.got[g] = [token |-> 1, err |-> FALSE]

\* The token of the last request answered with a token, 0 when there is
\* none.
RECURSIVE LastToken(_)
LastToken(k) ==
  IF k = 0 THEN 0
  ELSE IF requests[k].reply = "token" THEN k
  ELSE LastToken(k - 1)

\* C37: a request goes to the token endpoint only when no valid token is
\* cached at that instant, one request at a time; a caller that returns
\* without error has the token of the last answered request, and a caller
\* with an error made a request that failed.
C37_RequestOnlyWhenCacheInvalid ==
  call.op = "getAccessToken" =>
    /\ \A k \in 1..Len(requests) :
         \/ requests[k].accessToken = 0
         \/ requests[k].at >= requests[k].tokenExpiry
    /\ Cardinality({g \in TokenCallers : call.at[g] = "requesting"}) <= 1
    /\ \A g \in TokenCallers :
         call.at[g] = "returned" =>
           IF call.got[g].err
           THEN \E k \in 1..Len(requests) :
                  requests[k].by = g /\ requests[k].reply = "error"
           ELSE /\ call.got[g].token # 0
                /\ call.got[g].token <= Len(requests)
                /\ requests[call.got[g].token].reply = "token"
    /\ (\A g \in TokenCallers : call.at[g] \in {"idle", "returned"})
         => call.accessToken = LastToken(Len(requests))

\* Both callers were inside together with no token cached, one request was
\* made and both have its token.
C37_Witness ==
  /\ call.op = "getAccessToken"
  /\ call.together
  /\ \A g \in TokenCallers :
       /\ call.invalid[g]
       /\ call.at[g] = "returned"
       /\ call.got[g] = [token |-> 1, err |-> FALSE]
  /\ Len(requests) = 1


\* C38, as claimed: the mutex of the incident state is not held while a
\* request of the fan-out (the issue or the close) is in flight.
C38_NoRequestUnderMutex ==
  call.op = "processIncident" => ~(call.mu /\ call.inFlight # "none")


\* C39, as claimed: the workers drain the event channel before they exit:
\* when every worker has returned (no handler having panicked), no event
\* accepted into the channel is left in it.
C39_WorkersDrainBeforeExit ==
  (panics = {} /\ \A w \in Workers : pc[w] = "exited") => Len(eventCh) = 0


\* C40, as claimed: IsNewDeployment answers true without error when no
\* record is stored for the application and cluster, and otherwise true
\* exactly when the stored revision differs from the given one.
C40_NewUnlessSameRevisionStored ==
  call.op = "IsNewDeployment" =>
    /\ ~call.err
    /\ call.isNew <=> (call.stored = NoRecord \/ call.stored.revision # call.revision)

====
